---- MODULE Spec2Model ----
(***************************************************************************)
(* A model of the duplicate-file finder: the persistent hash cache         *)
(* (cache_manager.py), the hash engine (file_scanner.py) and the           *)
(* coordinator DuplicateFinder.find_duplicates (duplicate_finder.py).      *)
(*                                                                         *)
(* Paths are sequences of one-character strings, so that prefix matching   *)
(* on paths is matching on characters.  A digest is a non-empty tuple and  *)
(* Python's None is the empty tuple.                                       *)
(***************************************************************************)
EXTENDS Integers, Sequences, FiniteSets, TLC

VARIABLES
    cache,        \* rows of table hash_cache as the connection sees them:
                  \* [path, size, mtime, hash_value]
    committed,    \* rows of table hash_cache as of the last commit
    lastOp,       \* the last cache API call: its name, arguments and result
    disk,         \* the files under the root, in traversal order
    store,        \* the condition of the SQLite store: "sound", or "failing"
                  \* when a statement on it may raise sqlite3.Error
    scanner,      \* the FileScanner: its extensions and what its last scan
                  \* left in permission_errors and skipped_directories
    finder,       \* the DuplicateFinder: its toggles and hit/miss counters
    pc,           \* where find_duplicates is
    queue,        \* the files the current loop still has to visit
    hash_groups,  \* dict hash -> [FileInfo], in insertion order; after the
                  \* return, the dict the hashing stage returned
    to_save,      \* cache_entries_to_save of the current pass
    partials,     \* files_for_full_hash: <<FileInfo, partial hash>> pairs
    futures,      \* the pool's tasks, in submission order
    result,       \* what find_duplicates returned (in the specification of
                  \* the scanner: what scan_directory returned)
    run,          \* bookkeeping of the current call, for stating properties
    progress      \* the progress counters and the calls of the two callbacks

vars == <<cache, committed, lastOp, disk, store, scanner, finder, pc, queue,
          hash_groups, to_save, partials, futures, result, run, progress>>

None == <<>>

--------------------------------------------------------------------------
(* Sequences *)

IsPrefixOf(p, s) == Len(p) <= Len(s) /\ SubSeq(s, 1, Len(p)) = p

--------------------------------------------------------------------------
(* HashCache: the table and its operations *)

\* INSERT OR REPLACE with path UNIQUE: the row of the same path, if any,
\* is deleted and the new row inserted.
InsertKeepingOld(c, row) == c \cup {row}

InsertOrReplace(c, row) == {r \in c : r.path # row.path} \cup {row}

Row(p, s, m, h) == [path |-> p, size |-> s, mtime |-> m, hash_value |-> h]

\* HashCache.get: SELECT hash_value WHERE path = ? AND size = ? AND mtime = ?
CacheGetIgnoringMtime(c, p, s, m) ==
    IF \E r \in c : r.path = p /\ r.size = s
    THEN (CHOOSE r \in c : r.path = p /\ r.size = s).hash_value
    ELSE None

CacheGet(c, p, s, m) ==
    IF \E r \in c : r.path = p /\ r.size = s /\ r.mtime = m
    THEN (CHOOSE r \in c : r.path = p /\ r.size = s /\ r.mtime = m).hash_value
    ELSE None

\* HashCache.get_batch: {path: hash_value} of the rows matching a triple.
\* The result is the set of <<path, hash_value>> pairs of that dict.
CacheGetBatchByPath(c, infos) ==
    {<<r.path, r.hash_value>> : r \in {x \in c : \E i \in 1..Len(infos) :
        infos[i][1] = x.path}}

CacheGetBatch(c, infos) ==
    {<<r.path, r.hash_value>> : r \in {x \in c : \E i \in 1..Len(infos) :
        /\ infos[i][1] = x.path
        /\ infos[i][2] = x.size
        /\ infos[i][3] = x.mtime}}

\* dict.get on the result of get_batch
BatchLookup(d, p) ==
    IF \E e \in d : e[1] = p THEN (CHOOSE e \in d : e[1] = p)[2] ELSE None

\* HashCache.set
CacheSet(c, p, s, m, h) == InsertOrReplace(c, Row(p, s, m, h))

\* HashCache.set_batch: executemany of INSERT OR REPLACE, in list order.
RECURSIVE CacheSetBatch(_, _)
CacheSetBatch(c, entries) ==
    IF entries = <<>> THEN c
    ELSE CacheSetBatch(InsertOrReplace(c, Head(entries)), Tail(entries))

\* hash_value TEXT NOT NULL: the first entry of a batch, if any, that the
\* table rejects (0 when there is none)
FirstInvalid(entries) ==
    IF \E i \in 1..Len(entries) : entries[i].hash_value = None
    THEN CHOOSE i \in 1..Len(entries) :
            /\ entries[i].hash_value = None
            /\ \A j \in 1..(i - 1) : entries[j].hash_value # None
    ELSE 0

\* cursor.executemany: the statements run in list order inside the open
\* transaction; the first one that fails raises, and the statements before
\* it stay executed.
ExecuteMany(c, entries) ==
    IF FirstInvalid(entries) = 0 THEN CacheSetBatch(c, entries)
    ELSE CacheSetBatch(c, SubSeq(entries, 1, FirstInvalid(entries) - 1))

\* HashCache.cleanup_invalid_paths: the rows left, given the paths that are
\* valid (the supplied ones, or those of the files that exist)
CacheCleanupValidPaths(c, valid) == {r \in c : r.path \notin valid}

CacheCleanupInvalidPaths(c, valid) == {r \in c : r.path \in valid}

\* HashCache.invalidate
CacheInvalidate(c, p) == {r \in c : r.path # p}

\* os.path.normpath (posixpath) on a sequence of characters
RECURSIVE SplitSep(_, _)
SplitSep(s, cur) ==
    IF s = <<>> THEN <<cur>>
    ELSE IF Head(s) = "/" THEN <<cur>> \o SplitSep(Tail(s), <<>>)
    ELSE SplitSep(Tail(s), Append(cur, Head(s)))

RECURSIVE NormComps(_, _, _)
NormComps(comps, acc, initial) ==
    IF comps = <<>> THEN acc
    ELSE LET comp == Head(comps) IN
         IF comp = <<>> \/ comp = <<".">>
         THEN NormComps(Tail(comps), acc, initial)
         ELSE IF \/ comp # <<".", ".">>
                 \/ (initial = 0 /\ acc = <<>>)
                 \/ (acc # <<>> /\ acc[Len(acc)] = <<".", ".">>)
         THEN NormComps(Tail(comps), Append(acc, comp), initial)
         ELSE IF acc # <<>>
         THEN NormComps(Tail(comps), SubSeq(acc, 1, Len(acc) - 1), initial)
         ELSE NormComps(Tail(comps), acc, initial)

RECURSIVE JoinSep(_)
JoinSep(comps) ==
    IF comps = <<>> THEN <<>>
    ELSE IF Len(comps) = 1 THEN Head(comps)
    ELSE Head(comps) \o <<"/">> \o JoinSep(Tail(comps))

NormPath(p) ==
    IF p = <<>> THEN <<".">>
    ELSE LET initial == IF Head(p) # "/" THEN 0
                        ELSE IF Len(p) >= 2 /\ p[2] = "/" /\ ~(Len(p) >= 3 /\ p[3] = "/")
                        THEN 2 ELSE 1
             joined == JoinSep(NormComps(SplitSep(p, <<>>), <<>>, initial))
             out == (IF initial = 2 THEN <<"/", "/">>
                     ELSE IF initial = 1 THEN <<"/">> ELSE <<>>) \o joined
         IN IF out = <<>> THEN <<".">> ELSE out

\* path GLOB 'prefix*' for a prefix without GLOB metacharacters: the path
\* starts with the characters of the prefix.
GlobPrefixMatch(path, prefix) == IsPrefixOf(prefix, path)

\* HashCache.invalidate_by_prefix: the rows left
CacheInvalidateByPrefix(c, prefix) ==
    {r \in c : ~GlobPrefixMatch(r.path, NormPath(prefix))}

\* HashCache.clear: DELETE FROM hash_cache, and commit
CacheClearNothing(c) == c

CacheClear(c) == {}

\* HashCache.__init__ and _init_db on the store at cache_path: the call, and
\* what it raises ("" when the store opens).  When sqlite3 fails, the handler
\* builds its CacheError from the name cache_path, which _init_db does not
\* bind: evaluating it raises NameError, and no CacheError is made.
DEFAULT_CACHE_PATH == "hash_cache.db"

InitDb(cache_path, openable) ==
    [op |-> "init", cache_path |-> cache_path,
     raised |-> IF openable THEN "" ELSE "NameError",
     db_path |-> None]

--------------------------------------------------------------------------
(* HashEngine and the files on disk *)

PARTIAL_WINDOW == 1024 * 1024
PARTIAL_THREE_WINDOWS == 3 * 1024 * 1024
LARGE_FILE_SIZE == 5 * 1024 * 1024
LARGE_FILE_MIN_COUNT == 10

\* A file on disk.  Its bytes are abstracted to three tokens: head is the
\* first 1 MB window, win the middle and last 1 MB windows, rest all bytes
\* outside the three windows.
File(name, size, mtime, head, win, rest, readable) ==
    [path |-> <<"/", "r", "/", name>>, size |-> size, mtime |-> mtime,
     head |-> head, win |-> win, rest |-> rest, readable |-> readable,
     kind |-> "file", stat |-> "ok"]

FileInfo(f) == [path |-> f.path, size |-> f.size, mtime |-> f.mtime]

OnDisk(d, path) == CHOOSE i \in 1..Len(d) : d[i].path = path

\* The digest of a byte string under an algorithm: equal bytes give equal
\* digests, and distinct bytes or algorithms distinct digests (collision
\* resistance, idealised).
Digest(algorithm, bytes) == <<algorithm>> \o bytes

FullBytes(f) == <<f.size, f.head, f.win, f.rest>>

\* The bytes _calculate_partial_hash feeds to the hasher: the first window,
\* and for files over 3 MB the middle and the last window as well.
SampledBytes(f, file_size) ==
    IF file_size > PARTIAL_THREE_WINDOWS
    THEN <<PARTIAL_THREE_WINDOWS, f.head, f.win, "">>
    ELSE IF f.size <= PARTIAL_WINDOW THEN FullBytes(f)
    ELSE <<PARTIAL_WINDOW, f.head, "", "">>

\* hashlib.new(algorithm) and hexdigest over the bytes read, or None when
\* the file cannot be read
HashOfPath(algorithm, f) ==
    IF f.readable THEN Digest(algorithm, <<f.path>> \o FullBytes(f)) ELSE None

HashOf(algorithm, f) ==
    IF f.readable THEN Digest(algorithm, FullBytes(f)) ELSE None

\* HashCalculator.calculate_file_hash, on the calculator of the finder
CalculateFileHash(d, path) ==
    HashOf(finder.hash_calculator.algorithm, d[OnDisk(d, path)])

\* _calculate_file_hash_static, the worker of the process pool
CalculateFileHashStatic(d, path, algorithm) ==
    HashOf(algorithm, d[OnDisk(d, path)])

\* DuplicateFinder._calculate_partial_hash
CalculatePartialHash(d, path, file_size) ==
    LET f == d[OnDisk(d, path)] IN
    IF f.readable
    THEN Digest(finder.hash_calculator.algorithm, SampledBytes(f, file_size))
    ELSE None

--------------------------------------------------------------------------
(* FileScanner *)

\* What rglob yields besides the files of the trees: a file with a name of
\* several characters, and a directory.  `readable` is os.access(R_OK).
\* `stat` tells what stat() on the entry does: "ok"; "denied" when it raises
\* PermissionError (the directory above cannot be searched); "lost" when it
\* succeeds until the file is about to be recorded and raises then.
TreeEntry(kind, name, size, readable, stat) ==
    [path |-> <<"/", "r", "/">> \o name, size |-> size, mtime |-> 1,
     head |-> "", win |-> "", rest |-> "", readable |-> readable,
     kind |-> kind, stat |-> stat]

SKIP_EXTENSIONS ==
    {<<".", "a", "p", "p">>, <<".", "b", "u", "n", "d", "l", "e">>,
     <<".", "p", "k", "g">>, <<".", "d", "m", "g">>, <<".", "i", "s", "o">>}

SKIP_NAMES ==
    {<<".", "_">>, <<".", "D", "S", "_", "S", "t", "o", "r", "e">>,
     <<"T", "h", "u", "m", "b", "s", ".", "d", "b">>,
     <<".", "S", "p", "o", "t", "l", "i", "g", "h", "t", "-", "V", "1", "0", "0">>,
     <<".", "T", "r", "a", "s", "h", "e", "s">>}

\* str.lower, on the letters the names and extensions are made of
LowerChar(c) ==
    CASE c = "A" -> "a" [] c = "D" -> "d" [] c = "H" -> "h" [] c = "I" -> "i"
      [] c = "M" -> "m" [] c = "O" -> "o"
      [] c = "P" -> "p" [] c = "S" -> "s" [] c = "T" -> "t" [] c = "V" -> "v"
      [] c = "X" -> "x" [] OTHER -> c

Lower(str) == [i \in 1..Len(str) |-> LowerChar(str[i])]

\* str.rfind: the last position of a character at or before i, or 0
RECURSIVE RFind(_, _, _)
RFind(str, c, i) ==
    IF i = 0 THEN 0 ELSE IF str[i] = c THEN i ELSE RFind(str, c, i - 1)

\* Path.name: the characters after the last separator
PathName(path) == SubSeq(path, RFind(path, "/", Len(path)) + 1, Len(path))

\* Path.suffix: from the last dot of the name, when that dot is neither the
\* first nor the last character
PathSuffix(path) ==
    LET name == PathName(path)
        last == RFind(name, ".", Len(name))
    IN IF 1 < last /\ last < Len(name) THEN SubSeq(name, last, Len(name)) ELSE <<>>

\* FileScanner.extensions: None, or the set the scanner was given
NoExtensions == [given |-> FALSE, members |-> {}]
Extensions(members) == [given |-> TRUE, members |-> members]

\* e.lower() if e.startswith('.') else f'.{e.lower()}'
NormalizeExtensionKeepingCase(e) ==
    IF e # <<>> /\ Head(e) = "." THEN e ELSE <<".">> \o e

NormalizeExtension(e) ==
    IF e # <<>> /\ Head(e) = "." THEN Lower(e) ELSE <<".">> \o Lower(e)

\* scan_directory.should_skip_file
ShouldSkipFile(f, extensions) ==
    LET ext == Lower(PathSuffix(f.path))
        file_name == PathName(f.path)
    IN
    \/ ext \in SKIP_EXTENSIONS
    \/ \E name \in SKIP_NAMES : IsPrefixOf(name, file_name)
    \/ f.stat = "denied"
    \/ f.size = 0
    \/ /\ extensions.given
       /\ ext \notin {NormalizeExtension(e) : e \in extensions.members}

\* The counting pass (lines 137-152): the files to report progress for and
\* the directories that cannot be read.  is_file raises on an entry whose
\* stat is denied, which ends the pass.
RECURSIVE CountPass(_, _, _, _)
CountPass(d, extensions, total_files, skipped_dirs) ==
    IF d = <<>> \/ Head(d).stat = "denied"
    THEN [total_files |-> total_files, skipped_directories |-> skipped_dirs]
    ELSE LET item == Head(d) IN
         IF item.kind = "file" /\ ~ShouldSkipFile(item, extensions)
         THEN CountPass(Tail(d), extensions, total_files + 1, skipped_dirs)
         ELSE IF item.kind = "dir" /\ ~item.readable
         THEN CountPass(Tail(d), extensions, total_files, skipped_dirs \cup {item.path})
         ELSE CountPass(Tail(d), extensions, total_files, skipped_dirs)

\* PermissionErrorInfo
PermissionErrorInfo(path, error) == [path |-> path, error |-> error]

\* The loop that records the files (lines 163-185).  is_file is called
\* outside the try block, so on an entry whose stat is denied its
\* PermissionError leaves scan_directory.
RECURSIVE RecordPass(_, _, _, _)
RecordPass(d, extensions, files, permission_errors) ==
    IF d = <<>>
    THEN [raised |-> "", files |-> files, permission_errors |-> permission_errors]
    ELSE LET file_path == Head(d) IN
         IF file_path.stat = "denied"
         THEN [raised |-> "PermissionError", files |-> files,
               permission_errors |-> permission_errors]
         ELSE IF file_path.kind # "file" \/ ShouldSkipFile(file_path, extensions)
         THEN RecordPass(Tail(d), extensions, files, permission_errors)
         ELSE IF file_path.stat = "lost"
         THEN RecordPass(Tail(d), extensions, files,
                         Append(permission_errors,
                                PermissionErrorInfo(file_path.path, "no access")))
         ELSE RecordPass(Tail(d), extensions, Append(files, FileInfo(file_path)),
                         permission_errors)

\* FileScanner.scan_directory: what it returns or raises, and what it
\* leaves in the scanner
ScanDirectory(d, extensions) ==
    LET counted == CountPass(d, extensions, 0, {})
        recorded == RecordPass(d, extensions, <<>>, <<>>)
    IN [raised |-> recorded.raised,
        files |-> IF recorded.raised = "" THEN recorded.files ELSE <<>>,
        recorded |-> Len(recorded.files),
        total_files |-> counted.total_files,
        permission_errors |-> recorded.permission_errors,
        skipped_directories |-> counted.skipped_directories]

\* FileScanner.__init__
NewScanner(extensions) ==
    [extensions |-> extensions, permission_errors |-> <<>>,
     skipped_directories |-> {}]

\* The scanner after scan_directory
AfterScan(sc, scan) ==
    [sc EXCEPT !.permission_errors = scan.permission_errors,
               !.skipped_directories = scan.skipped_directories]

\* FileScanner.get_permission_summary: the count it returns
GetPermissionSummary(sc) == Len(sc.permission_errors)

--------------------------------------------------------------------------
(* HashCalculator *)

secure_algorithms ==
    {<<"s", "h", "a", "2", "5", "6">>,
     <<"s", "h", "a", "3", "8", "4">>,
     <<"s", "h", "a", "5", "1", "2">>,
     <<"s", "h", "a", "3", "_", "2", "5", "6">>,
     <<"s", "h", "a", "3", "_", "3", "8", "4">>,
     <<"s", "h", "a", "3", "_", "5", "1", "2">>}

DEFAULT_ALGORITHM == <<"s", "h", "a", "2", "5", "6">>

\* HashCalculator.__init__: the calculator, or the ValueError it raises
NewHashCalculatorUnchecked(algorithm) ==
    [raised |-> "", algorithm |-> Lower(algorithm)]

NewHashCalculator(algorithm) ==
    IF Lower(algorithm) \notin secure_algorithms
    THEN [raised |-> "ValueError", algorithm |-> None]
    ELSE [raised |-> "", algorithm |-> Lower(algorithm)]

--------------------------------------------------------------------------
(* DuplicateFinder: the pure steps of find_duplicates *)

\* defaultdict(list)[key].append(item), keeping the dict's insertion order
AppendToGroup(groups, key, item) ==
    IF \E i \in 1..Len(groups) : groups[i].key = key
    THEN [i \in 1..Len(groups) |->
            IF groups[i].key = key
            THEN [groups[i] EXCEPT !.files = Append(@, item)]
            ELSE groups[i]]
    ELSE Append(groups, [key |-> key, files |-> <<item>>])

\* The dict is a value when the append happens: it is bound once, not
\* recomputed at each of its uses.
AddToGroups(groups, key, item) ==
    CHOOSE r \in {AppendToGroup(dict, key, item) : dict \in {groups}} : TRUE

RECURSIVE SizeGroupsFrom(_, _)
SizeGroupsFrom(files, acc) ==
    IF files = <<>> THEN acc
    ELSE SizeGroupsFrom(Tail(files), AddToGroups(acc, Head(files).size, Head(files)))

SizeGroups(files) == SizeGroupsFrom(files, <<>>)

RECURSIVE FilesOf(_)
FilesOf(groups) ==
    IF groups = <<>> THEN <<>>
    ELSE <<Head(groups).files>> \o FilesOf(Tail(groups))

\* find_duplicates step 2: the size groups with more than one file
KeepAllSizeGroups(files) == FilesOf(SizeGroups(files))

PotentialDuplicates(files) ==
    SelectSeq(FilesOf(SizeGroups(files)), LAMBDA g : Len(g) > 1)

RECURSIVE Flatten(_)
Flatten(lists) ==
    IF lists = <<>> THEN <<>> ELSE Head(lists) \o Flatten(Tail(lists))

\* DuplicateFinder._should_use_multi_stage
LargeFileCountFromThreshold(all) ==
    Cardinality({i \in 1..Len(all) : all[i].size >= LARGE_FILE_SIZE})

LargeFileCount(all) == Cardinality({i \in 1..Len(all) : all[i].size > LARGE_FILE_SIZE})

ShouldUseMultiStage(potential) ==
    LargeFileCount(Flatten(potential)) >= LARGE_FILE_MIN_COUNT

EntryUnstamped(fi, h) == Row(fi.path, fi.size, 0, h)

Entry(fi, h) == Row(fi.path, fi.size, fi.mtime, h)

\* find_duplicates step 4: a DuplicateGroup per hash with more than one file
Group(g) == [hash_value |-> g.key, files |-> g.files,
             total_size |-> g.files[1].size * Len(g.files)]

RECURSIVE GroupsOf(_, _)
GroupsOf(groups, minLen) ==
    IF groups = <<>> THEN <<>>
    ELSE IF Len(Head(groups).files) >= minLen
    THEN <<Group(Head(groups))>> \o GroupsOf(Tail(groups), minLen)
    ELSE GroupsOf(Tail(groups), minLen)

\* list.sort(key=total_size, reverse=True): stable, largest first
InsertBeforeEqual(sorted, g) ==
    LET before == Cardinality({i \in 1..Len(sorted) : sorted[i].total_size > g.total_size})
    IN SubSeq(sorted, 1, before) \o <<g>> \o SubSeq(sorted, before + 1, Len(sorted))

InsertSorted(sorted, g) ==
    LET before == Cardinality({i \in 1..Len(sorted) : sorted[i].total_size >= g.total_size})
    IN SubSeq(sorted, 1, before) \o <<g>> \o SubSeq(sorted, before + 1, Len(sorted))

RECURSIVE SortGroups(_, _)
SortGroups(groups, acc) ==
    IF groups = <<>> THEN acc
    ELSE SortGroups(Tail(groups), InsertSorted(acc, Head(groups)))

CreateGroupsKeepingSingles(groups) == SortGroups(GroupsOf(groups, 1), <<>>)

CreateDuplicateGroups(groups) == SortGroups(GroupsOf(groups, 2), <<>>)

\* DuplicateFinder.get_total_wasted_space
RECURSIVE SumOfTotalSizes(_)
SumOfTotalSizes(duplicate_groups) ==
    IF duplicate_groups = <<>> THEN 0
    ELSE Head(duplicate_groups).total_size + SumOfTotalSizes(Tail(duplicate_groups))

RECURSIVE GetTotalWastedSpace(_)
GetTotalWastedSpace(duplicate_groups) ==
    IF duplicate_groups = <<>> THEN 0
    ELSE (Head(duplicate_groups).total_size - Head(duplicate_groups).files[1].size)
         + GetTotalWastedSpace(Tail(duplicate_groups))

--------------------------------------------------------------------------
(* Progress reporting *)

\* report_interval = max(1, n // per) if n > per else 1
ReportInterval(n, per) ==
    IF n > per THEN (IF n \div per > 1 THEN n \div per ELSE 1) ELSE 1

\* The calls scan_directory makes to its progress callback: (0, total) when
\* there is a file, then (processed, total) at the interval and at the end.
RECURSIVE ScanCalls(_, _, _, _, _)
ScanCalls(processed, last_reported, total_files, recorded, calls) ==
    IF processed = recorded THEN calls
    ELSE LET n == processed + 1 IN
         IF n - last_reported >= ReportInterval(total_files, 20) \/ n = total_files
         THEN ScanCalls(n, n, total_files, recorded, Append(calls, <<n, total_files>>))
         ELSE ScanCalls(n, last_reported, total_files, recorded, calls)

ScanProgress(scan) ==
    IF scan.total_files > 0
    THEN ScanCalls(0, 0, scan.total_files, scan.recorded,
                   <<<<0, scan.total_files>>>>)
    ELSE <<>>

NoProgress ==
    [scan |-> <<>>, hash |-> <<>>, processed |-> 0, last_reported |-> 0,
     total |-> 0, interval |-> 1, offset |-> 0]

\* The counters a hashing loop starts with, and its first call of the
\* callback, made only when there is a candidate.
StartProgress(scan, first, total, interval) ==
    [scan |-> scan,
     hash |-> IF total > 0 THEN <<<<first, total>>>> ELSE <<>>,
     processed |-> first, last_reported |-> first,
     total |-> total, interval |-> interval, offset |-> 0]

\* processed += 1, and the callback is called with `reported` when the
\* interval has passed or the counter has reached endAt.
Tick(pr, endAt, reported) ==
    LET n == pr.processed + 1 IN
    IF n - pr.last_reported >= pr.interval \/ n = endAt
    THEN [pr EXCEPT !.processed = n, !.last_reported = n,
                    !.hash = Append(@, <<reported, pr.total>>)]
    ELSE [pr EXCEPT !.processed = n]

\* The counters of a full-hash pass of multi-stage, which starts from
\* start_offset = total // 2 and counts its own files.
FullPassFromZero(pr, nfiles) ==
    [pr EXCEPT !.processed = 0, !.last_reported = 0,
               !.interval = ReportInterval(nfiles, 20),
               !.offset = 0]

FullPassProgress(pr, nfiles) ==
    [pr EXCEPT !.processed = 0, !.last_reported = 0,
               !.interval = ReportInterval(nfiles, 20),
               !.offset = pr.total \div 2]

--------------------------------------------------------------------------
(* The trees the scans run on *)

MaxRuns == 2
MaxPoolTasks == 5
ExtraLarge == 0
MaxMtime == 2
MaxCacheSize == 2

LARGE == LARGE_FILE_SIZE + 1

\* The tree of test_features.create_test_files and of the specification's
\* scenario: two equal files with different mtimes, a third of another
\* size, and an empty file.
ScenarioTree ==
    <<File("a", 3, 1, "XYZ", "", "", TRUE),
      File("b", 3, 2, "XYZ", "", "", TRUE),
      File("c", 1, 1, "W", "", "", TRUE),
      File("e", 0, 1, "", "", "", TRUE)>>

\* Two size groups: a pair of equal files in the first, and in the second
\* a pair of equal files of which one cannot be read.
TwoGroupTree ==
    <<File("a", 3, 1, "XYZ", "", "", TRUE),
      File("b", 1, 1, "W", "", "", TRUE),
      File("c", 3, 1, "XYZ", "", "", TRUE),
      File("d", 1, 2, "W", "", "", FALSE)>>

\* Two size groups with a pair of equal files each; the pair met first is
\* the smaller one.
SortTree ==
    <<File("a", 1, 1, "W", "", "", TRUE),
      File("b", 3, 1, "XYZ", "", "", TRUE),
      File("c", 1, 1, "W", "", "", TRUE),
      File("d", 3, 1, "XYZ", "", "", TRUE)>>

\* Three equal files of size 2 and two equal files of size 3: two groups
\* of the same total size.
TieTree ==
    <<File("a", 2, 1, "AB", "", "", TRUE),
      File("b", 3, 1, "XYZ", "", "", TRUE),
      File("c", 2, 1, "AB", "", "", TRUE),
      File("d", 3, 1, "XYZ", "", "", TRUE),
      File("e", 2, 1, "AB", "", "", TRUE)>>

LargeNames == <<"0", "1", "2", "3", "4", "5", "6", "7", "8", "9", "A", "B">>

\* n files over 5 MB.  The file met first cannot be read; the two after it
\* ("0" and "1") are equal, the next ("2") has their three sampled windows
\* but other bytes in between, and every other one differs from all in its
\* first window.
LargeTree(n) ==
    [i \in 1..n |->
        IF i = 1 THEN File(LargeNames[n], LARGE, 1, LargeNames[n], "W", "R", FALSE)
        ELSE IF i <= 3 THEN File(LargeNames[i - 1], LARGE, 1, "H", "W", "R", TRUE)
        ELSE IF i = 4 THEN File(LargeNames[i - 1], LARGE, 1, "H", "W", "Q", TRUE)
        ELSE File(LargeNames[i - 1], LARGE, 1, LargeNames[i - 1], "W", "R", TRUE)]

Trees ==
    {ScenarioTree, TwoGroupTree, SortTree, TieTree}
    \cup {LargeTree(n) : n \in (LARGE_FILE_MIN_COUNT - 1)..(LARGE_FILE_MIN_COUNT + ExtraLarge)}

--------------------------------------------------------------------------
(* DuplicateFinder: construction and the state of one call *)

CONCURRENT_AVAILABLE == TRUE

\* DuplicateFinder.__init__
NewFinder(parallel, cached, multi, procpool) ==
    [use_parallel |-> parallel /\ CONCURRENT_AVAILABLE,
     cache_enabled |-> cached,
     use_multi_stage |-> multi,
     use_process_pool |-> procpool,
     hash_calculator |-> NewHashCalculator(DEFAULT_ALGORITHM),
     cache_hits |-> 0,
     cache_misses |-> 0]

HasCache == finder.cache_enabled

NewRun(n, reusable) ==
    [n |-> n,                   \* calls of find_duplicates started so far
     strategy |-> "none",       \* the hashing strategy selected
     cancelled |-> FALSE,       \* a poll of the hashing phase returned true
     looked_up |-> {},          \* paths looked up in the cache
     partial_hashed |-> {},     \* paths whose partial hash was computed
     full_hashed |-> {},        \* paths whose full hash was computed
     collected |-> {},          \* paths whose computed hash the coordinator took
     hits |-> 0,                \* cache hits of this call
     missed |-> {},             \* paths looked up and not found
     cache_at_start |-> cache,
     cache_on |-> FALSE,        \* the finder of this call has a cache
     short_circuit |-> {},      \* paths stage 1 of multi-stage found in the cache
     faults |-> {},             \* operations of this call that raised
     saves |-> <<>>,            \* the batches passed to set_batch, as sets
     rerun |-> reusable,        \* the call before ran to completion, cached, on this tree
     first_result |-> IF reusable THEN result ELSE <<>>]

\* No call of the current finder on the current tree has been made.
NoRun(n) == [NewRun(n, FALSE) EXCEPT !.cache_at_start = {}]

\* `if cache_entries_to_save and self.cache: self.cache.set_batch(...)`:
\* the call is recorded when it is made.
WithSave(r, entries) ==
    IF entries # <<>> /\ HasCache
    THEN [r EXCEPT !.saves = Append(@, {entries[i] : i \in 1..Len(entries)})]
    ELSE r

Hit(f) == [f EXCEPT !.cache_hits = @ + 1]
Miss(f) == [f EXCEPT !.cache_misses = @ + 1]

\* DuplicateFinder.get_cache_stats: the counters of the finder, and the hit
\* rate as the fraction <<hits, hits + misses>>, or 0 without a request
GetCacheStats(f) ==
    IF ~f.cache_enabled THEN [enabled |-> FALSE]
    ELSE [enabled |-> TRUE,
          hits |-> f.cache_hits,
          misses |-> f.cache_misses,
          hit_rate |-> IF f.cache_hits + f.cache_misses > 0
                       THEN <<f.cache_hits, f.cache_hits + f.cache_misses>>
                       ELSE 0]

\* The stage returns `groups` to find_duplicates, which builds its result.
Return(groups) ==
    /\ result' = CreateDuplicateGroups(groups)
    /\ pc' = "done"
    /\ queue' = <<>>
    /\ hash_groups' = groups
    /\ to_save' = <<>>
    /\ partials' = <<>>
    /\ futures' = <<>>

\* An operation called by find_duplicates raises (a cache call of the
\* hashing stage sqlite3.Error, scan_directory an OSError), and neither the
\* operation nor find_duplicates has a handler: the call of find_duplicates
\* ends with the exception and returns nothing.  The exception goes to the
\* caller, and the model follows that finder no further.
Abort(r, op) ==
    /\ run' = [r EXCEPT !.faults = @ \cup {op}]
    /\ pc' = "raised"
    /\ result' = <<>>
    /\ queue' = <<>>
    /\ hash_groups' = <<>>
    /\ to_save' = <<>>
    /\ partials' = <<>>
    /\ futures' = <<>>

\* Whether a cache call of the finder fails: never on a sound store
Faults == IF store = "failing" THEN BOOLEAN ELSE {FALSE}

Idle == pc \in {"idle", "done", "cleared"}

--------------------------------------------------------------------------
(* find_duplicates: enumeration, size grouping, strategy selection *)

SelectStrategy(f, potential) ==
    IF f.use_multi_stage /\ ShouldUseMultiStage(potential) THEN "multi_stage"
    ELSE IF f.use_parallel /\ Len(potential) > 1 THEN "parallel"
    ELSE "serial"

\* A new finder is constructed on the same store (a new process, or a
\* changed configuration); what the finder before it returned is gone.
\* With the cache enabled the constructor opens the store, and when that
\* raises there is no finder.
Construct ==
    /\ pc \in {"done", "failed", "cleared"}
    /\ run.n < MaxRuns
    /\ \/ /\ lastOp' = InitDb(DEFAULT_CACHE_PATH, FALSE)
          /\ pc' = "failed"
          /\ UNCHANGED finder
       \/ \E parallel, cached, multi, procpool \in BOOLEAN :
             /\ finder' = NewFinder(parallel, cached, multi, procpool)
             /\ lastOp' = IF cached THEN InitDb(DEFAULT_CACHE_PATH, TRUE)
                           ELSE [op |-> "none"]
             /\ pc' = "idle"
    /\ result' = <<>>
    /\ run' = NoRun(run.n)
    /\ progress' = NoProgress
    /\ hash_groups' = <<>>
    /\ UNCHANGED <<cache, committed, disk, store, scanner, queue, to_save, partials, futures>>

\* find_duplicates up to the call of the hashing stage (lines 98-134).  An
\* exception of scan_directory leaves find_duplicates as it is.
\* What the hash-progress callback has seen when the first poll of
\* cancel_callback, made after the size grouping, returns true: the call
\* returns before any hashing stage is entered.
EarlyCancelAfterFirstReport(scan, total) ==
    StartProgress(scan, 0, total, ReportInterval(total, 20))

EarlyCancel(scan, total) == [NoProgress EXCEPT !.scan = scan]

FindDuplicatesStart ==
    /\ Idle
    /\ run.n < MaxRuns
    /\ LET scanned == ScanDirectory(disk, scanner.extensions)
           files == scanned.files
           potential == PotentialDuplicates(files)
           strategy == SelectStrategy(finder, potential)
           reusable == pc = "done" /\ ~run.cancelled /\ run.strategy # "none"
                       /\ run.cache_on /\ HasCache
           fresh == [NewRun(run.n + 1, reusable) EXCEPT !.cache_on = HasCache]
           total == Len(Flatten(potential))
           scan == ScanProgress(scanned)
       IN /\ scanner' = AfterScan(scanner, scanned)
          /\ \E cancel \in BOOLEAN :
            IF scanned.raised # ""
            THEN /\ Abort(fresh, "scan_directory")
                 /\ progress' = [NoProgress EXCEPT !.scan = scan]
            ELSE IF cancel
            THEN /\ Return(<<>>)
                 /\ run' = fresh
                 /\ progress' = EarlyCancel(scan, total)
            ELSE /\ run' = [fresh EXCEPT !.strategy = strategy]
                 /\ progress' =
                      IF strategy = "serial"
                      THEN StartProgress(scan, 0, total, ReportInterval(total, 20))
                      ELSE IF strategy = "multi_stage"
                      THEN StartProgress(scan, 0, total, ReportInterval(total, 40))
                      ELSE [NoProgress EXCEPT !.scan = scan]
                 /\ pc' = strategy
                 /\ queue' = Flatten(potential)
                 /\ hash_groups' = <<>>
                 /\ to_save' = <<>>
                 /\ partials' = <<>>
                 /\ futures' = <<>>
                 /\ result' = <<>>
    /\ UNCHANGED <<cache, committed, lastOp, disk, store, finder>>

--------------------------------------------------------------------------
(* _calculate_hashes_serial *)

\* What the serial loop writes to the cache when it observes cancellation
SerialFlushOnCancel(c, entries) ==
    IF entries # <<>> /\ HasCache THEN CacheSetBatch(c, entries) ELSE c

\* One iteration of the loop over the candidates (lines 410-445)
SerialStep ==
    /\ pc = "serial"
    /\ queue # <<>>
    /\ \E cancel \in BOOLEAN, fault \in Faults :
         IF cancel /\ fault /\ to_save # <<>> /\ HasCache
         THEN /\ Abort([run EXCEPT !.cancelled = TRUE], "set_batch")
              /\ UNCHANGED <<cache, committed, finder, progress>>
         ELSE IF cancel
         THEN /\ cache' = SerialFlushOnCancel(cache, to_save)
              /\ committed' = cache'
              /\ run' = WithSave([run EXCEPT !.cancelled = TRUE], to_save)
              /\ Return(<<>>)
              /\ UNCHANGED <<finder, progress>>
         ELSE IF fault /\ HasCache
         THEN /\ Abort(run, "get")
              /\ UNCHANGED <<cache, committed, finder, progress>>
         ELSE LET fi == Head(queue)
                  cached == IF HasCache
                            THEN CacheGet(cache, fi.path, fi.size, fi.mtime)
                            ELSE None
                  hit == cached # None
                  h == IF hit THEN cached ELSE CalculateFileHash(disk, fi.path)
              IN /\ finder' = IF ~HasCache THEN finder
                              ELSE IF hit THEN Hit(finder) ELSE Miss(finder)
                 /\ run' = [run EXCEPT
                      !.looked_up = IF HasCache THEN @ \cup {fi.path} ELSE @,
                      !.hits = IF HasCache /\ hit THEN @ + 1 ELSE @,
                      !.missed = IF HasCache /\ ~hit THEN @ \cup {fi.path} ELSE @,
                      !.full_hashed = IF hit THEN @ ELSE @ \cup {fi.path},
                      !.collected = IF ~hit /\ h # None THEN @ \cup {fi.path} ELSE @]
                 /\ to_save' = IF ~hit /\ h # None /\ HasCache
                               THEN Append(to_save, Entry(fi, h)) ELSE to_save
                 /\ hash_groups' = IF h # None THEN AddToGroups(hash_groups, h, fi)
                                   ELSE hash_groups
                 /\ queue' = Tail(queue)
                 /\ progress' = Tick(progress, progress.total, progress.processed + 1)
                 /\ UNCHANGED <<cache, committed, pc, partials, futures, result>>
    /\ UNCHANGED <<lastOp, disk, store, scanner>>

\* After the loop: the batch save and the return (lines 447-451)
SerialFinish ==
    /\ pc = "serial"
    /\ queue = <<>>
    /\ \E fault \in Faults :
         IF fault /\ to_save # <<>> /\ HasCache
         THEN /\ Abort(run, "set_batch")
              /\ UNCHANGED <<cache, committed>>
         ELSE /\ cache' = IF to_save # <<>> /\ HasCache
                          THEN CacheSetBatch(cache, to_save) ELSE cache
              /\ committed' = cache'
              /\ Return(hash_groups)
              /\ run' = WithSave(run, to_save)
    /\ UNCHANGED <<lastOp, disk, store, scanner, finder, progress>>

--------------------------------------------------------------------------
(* The worker pools *)

Task(fi) == [file |-> fi, state |-> "pending"]

Submit(files) == [i \in 1..Len(files) |-> Task(files[i])]

SetState(fs, i, st) == [fs EXCEPT ![i].state = st]

AllCollected(fs) == \A i \in 1..Len(fs) : fs[i].state = "collected"

\* A pool worker (thread or process) computes the full hash of one task.
WorkerHash ==
    /\ pc \in {"thread_pool", "process_pool", "full_parallel"}
    /\ \E i \in 1..Len(futures) :
         /\ futures[i].state = "pending"
         /\ futures' = SetState(futures, i, "done")
         /\ run' = [run EXCEPT !.full_hashed = @ \cup {futures[i].file.path}]
    /\ UNCHANGED <<cache, committed, lastOp, disk, store, scanner, finder, pc, queue, hash_groups,
                   to_save, partials, result, progress>>

\* The coordinator takes the result of task i: the body of the loops over
\* as_completed / executor.map after the cancellation poll.
CollectResult(i) ==
    LET fi == futures[i].file
        h == IF pc = "process_pool"
             THEN CalculateFileHashStatic(disk, fi.path, finder.hash_calculator.algorithm)
             ELSE CalculateFileHash(disk, fi.path)
    IN /\ hash_groups' = IF h # None THEN AddToGroups(hash_groups, h, fi)
                         ELSE hash_groups
       /\ to_save' = IF h # None /\ HasCache THEN Append(to_save, Entry(fi, h))
                     ELSE to_save
       /\ run' = [run EXCEPT !.collected = IF h # None THEN @ \cup {fi.path} ELSE @]
       /\ futures' = SetState(futures, i, "collected")

--------------------------------------------------------------------------
(* _calculate_hashes_parallel *)

RECURSIVE CachedGroups(_, _, _)
CachedGroups(files, cached, acc) ==
    IF files = <<>> THEN acc
    ELSE LET h == BatchLookup(cached, Head(files).path) IN
         CachedGroups(Tail(files), cached,
                      IF h # None THEN AddToGroups(acc, h, Head(files)) ELSE acc)

\* files_to_calculate: the candidates the batched lookup did not find
FilesToCalculateAll(files, cached) == files

FilesToCalculate(files, cached) ==
    SelectSeq(files, LAMBDA fi : BatchLookup(cached, fi.path) = None)

\* The batched cache lookup and the submission to the pool (lines 460-564)
ParallelLookup ==
    /\ pc = "parallel"
    /\ \E fault \in Faults :
       LET infos == [i \in 1..Len(queue) |->
                        <<queue[i].path, queue[i].size, queue[i].mtime>>]
           cached == IF HasCache /\ ~fault THEN CacheGetBatch(cache, infos) ELSE {}
           to_calculate == FilesToCalculate(queue, cached)
           nhits == Len(queue) - Len(to_calculate)
           groups == CachedGroups(queue, cached, <<>>)
       IN /\ finder' = IF HasCache
                       THEN [finder EXCEPT !.cache_hits = @ + nhits,
                                           !.cache_misses = @ + Len(to_calculate)]
                       ELSE finder
          /\ run' = [run EXCEPT
                !.looked_up = IF HasCache THEN @ \cup {queue[i].path : i \in 1..Len(queue)}
                              ELSE @,
                !.hits = IF HasCache THEN @ + nhits ELSE @,
                !.missed = IF HasCache
                           THEN @ \cup {to_calculate[i].path : i \in 1..Len(to_calculate)}
                           ELSE @,
                !.faults = IF HasCache /\ fault THEN @ \cup {"get_batch"} ELSE @]
          /\ progress' = StartProgress(progress.scan, nhits, Len(queue),
                                       ReportInterval(Len(queue), 20))
          /\ IF to_calculate = <<>>
             THEN Return(groups)
             ELSE /\ Len(to_calculate) <= MaxPoolTasks
                  /\ pc' = IF finder.use_process_pool THEN "process_pool" ELSE "thread_pool"
                  /\ futures' = Submit(to_calculate)
                  /\ hash_groups' = groups
                  /\ queue' = <<>>
                  /\ UNCHANGED <<to_save, partials, result>>
    /\ UNCHANGED <<cache, committed, lastOp, disk, store, scanner>>

\* The entries the loop has accumulated when it breaks on cancellation: the
\* result that was just yielded is not among them.
EntriesWithYielded(entries, fi, h) ==
    IF h # None THEN Append(entries, Entry(fi, h)) ELSE entries

EntriesAtCancel(entries, fi, h) == entries

\* The tasks the pool runs while the `with` block is left after a
\* cancellation.  The loop over as_completed cancels every future before it
\* breaks, so no pending task of the thread pool starts; the loop over
\* executor.map only breaks, and shutdown(wait=True) lets the process pool
\* run every task that was submitted.
RunAtShutdown(fs, process_pool) ==
    IF process_pool
    THEN {i \in 1..Len(fs) : fs[i].state = "pending"}
    ELSE {}

\* Cancellation observed in the loop: break, batch save, return hash_groups
\* (lines 539-540 / 568-572, then 617-621)
ParallelCancel(i) ==
    LET fi == futures[i].file
        entries == EntriesAtCancel(to_save, fi, CalculateFileHash(disk, fi.path))
        late == RunAtShutdown(futures, pc = "process_pool")
        stopped == [run EXCEPT !.cancelled = TRUE,
                               !.full_hashed = @ \cup {futures[j].file.path : j \in late}]
    IN \E fault \in Faults :
         IF fault /\ entries # <<>> /\ HasCache
         THEN /\ Abort(stopped, "set_batch")
              /\ UNCHANGED <<cache, committed, progress>>
         ELSE /\ run' = WithSave(stopped, entries)
              /\ cache' = IF entries # <<>> /\ HasCache
                          THEN CacheSetBatch(cache, entries) ELSE cache
              /\ committed' = cache'
              /\ Return(hash_groups)
              /\ UNCHANGED progress

\* One iteration of the loop over as_completed (lines 567-594)
ThreadPoolCollect ==
    /\ pc = "thread_pool"
    /\ \E i \in 1..Len(futures) :
         /\ futures[i].state = "done"
         /\ \E cancel \in BOOLEAN :
              IF cancel THEN ParallelCancel(i)
              ELSE /\ CollectResult(i)
                   /\ progress' = Tick(progress, progress.total, progress.processed + 1)
                   /\ UNCHANGED <<cache, committed, pc, queue, partials, result>>
    /\ UNCHANGED <<lastOp, disk, store, scanner, finder>>

\* One iteration of the loop over the results of executor.map, which come
\* in submission order (lines 538-556)
ProcessPoolCollect ==
    /\ pc = "process_pool"
    /\ \E i \in 1..Len(futures) :
         /\ futures[i].state = "done"
         /\ \A j \in 1..(i - 1) : futures[j].state = "collected"
         /\ \E cancel \in BOOLEAN :
              IF cancel THEN ParallelCancel(i)
              ELSE /\ CollectResult(i)
                   /\ progress' = Tick(progress, progress.total, progress.processed + 1)
                   /\ UNCHANGED <<cache, committed, pc, queue, partials, result>>
    /\ UNCHANGED <<lastOp, disk, store, scanner, finder>>

\* After the loop: the batch save and the return (lines 617-621)
ParallelFinish ==
    /\ pc \in {"thread_pool", "process_pool"}
    /\ AllCollected(futures)
    /\ \E fault \in Faults :
         IF fault /\ to_save # <<>> /\ HasCache
         THEN /\ Abort(run, "set_batch")
              /\ UNCHANGED <<cache, committed>>
         ELSE /\ cache' = IF to_save # <<>> /\ HasCache
                          THEN CacheSetBatch(cache, to_save) ELSE cache
              /\ committed' = cache'
              /\ Return(hash_groups)
              /\ run' = WithSave(run, to_save)
    /\ UNCHANGED <<lastOp, disk, store, scanner, finder, progress>>

--------------------------------------------------------------------------
(* _calculate_hashes_multi_stage *)

\* What stage 1 returns on a cache hit for fi (lines 201-206)
HitGroups(h, fi) == <<[key |-> h, files |-> <<fi>>]>>

\* One iteration of stage 1 (lines 193-220)
MultiStageStep ==
    /\ pc = "multi_stage"
    /\ queue # <<>>
    /\ \E cancel \in BOOLEAN, fault \in Faults :
         IF cancel
         THEN /\ run' = [run EXCEPT !.cancelled = TRUE]
              /\ Return(<<>>)
              /\ UNCHANGED <<finder, progress>>
         ELSE IF fault /\ HasCache
         THEN /\ Abort(run, "get")
              /\ UNCHANGED <<finder, progress>>
         ELSE LET fi == Head(queue)
                  cached == IF HasCache
                            THEN CacheGet(cache, fi.path, fi.size, fi.mtime)
                            ELSE None
                  hit == cached # None
                  partial == CalculatePartialHash(disk, fi.path, fi.size)
              IN /\ finder' = IF ~HasCache THEN finder
                              ELSE IF hit THEN Hit(finder) ELSE Miss(finder)
                 /\ run' = [run EXCEPT
                      !.looked_up = IF HasCache THEN @ \cup {fi.path} ELSE @,
                      !.hits = IF HasCache /\ hit THEN @ + 1 ELSE @,
                      !.missed = IF HasCache /\ ~hit THEN @ \cup {fi.path} ELSE @,
                      !.partial_hashed = IF hit THEN @ ELSE @ \cup {fi.path},
                      !.short_circuit = IF hit THEN @ \cup {fi.path} ELSE @]
                 /\ IF hit
                    THEN Return(HitGroups(cached, fi)) /\ UNCHANGED progress
                    ELSE /\ partials' = IF partial # None
                                        THEN Append(partials, <<fi, partial>>)
                                        ELSE partials
                         /\ queue' = Tail(queue)
                         /\ progress' = Tick(progress, 0, (progress.processed + 1) \div 2)
                         /\ UNCHANGED <<pc, hash_groups, to_save, futures, result>>
    /\ UNCHANGED <<cache, committed, lastOp, disk, store, scanner>>

RECURSIVE PartialToFiles(_, _)
PartialToFiles(pairs, acc) ==
    IF pairs = <<>> THEN acc
    ELSE PartialToFiles(Tail(pairs), AddToGroups(acc, Head(pairs)[2], Head(pairs)[1]))

\* Stage 2: the files whose partial hash another file shares (lines 226-237)
SecondStageFilesAll(pairs) ==
    Flatten(FilesOf(PartialToFiles(pairs, <<>>)))

SecondStageFiles(pairs) ==
    Flatten(SelectSeq(FilesOf(PartialToFiles(pairs, <<>>)), LAMBDA l : Len(l) > 1))

\* Stage 2 and the choice of the full-hash pass (lines 222-255)
MultiStageSelect ==
    /\ pc = "multi_stage"
    /\ queue = <<>>
    /\ LET second == SecondStageFiles(partials) IN
         IF finder.use_parallel /\ Len(second) > 1
         THEN /\ Len(second) <= MaxPoolTasks
              /\ pc' = "full_parallel"
              /\ futures' = Submit(second)
              /\ UNCHANGED queue
         ELSE /\ pc' = "full_serial"
              /\ queue' = second
              /\ UNCHANGED futures
    /\ partials' = <<>>
    /\ progress' = FullPassProgress(progress, Len(SecondStageFiles(partials)))
    /\ UNCHANGED <<cache, committed, lastOp, disk, store, scanner, finder, hash_groups, to_save, result, run>>

RECURSIVE EntriesOf(_)
EntriesOf(groups) ==
    IF groups = <<>> THEN <<>>
    ELSE [i \in 1..Len(Head(groups).files) |-> Entry(Head(groups).files[i], Head(groups).key)]
         \o EntriesOf(Tail(groups))

\* The save at the end of the multi-stage strategy (lines 257-269)
MultiStageSave(c, groups) ==
    IF HasCache /\ groups # <<>> THEN CacheSetBatch(c, EntriesOf(groups)) ELSE c

\* _calculate_full_hashes_serial: one iteration (lines 318-330)
FullSerialStep ==
    /\ pc = "full_serial"
    /\ queue # <<>>
    /\ \E cancel \in BOOLEAN :
         IF cancel
         THEN /\ run' = [run EXCEPT !.cancelled = TRUE]
              /\ Return(<<>>)
              /\ UNCHANGED progress
         ELSE LET fi == Head(queue)
                  h == CalculateFileHash(disk, fi.path)
              IN /\ hash_groups' = IF h # None THEN AddToGroups(hash_groups, h, fi)
                                   ELSE hash_groups
                 /\ run' = [run EXCEPT
                      !.full_hashed = @ \cup {fi.path},
                      !.collected = IF h # None THEN @ \cup {fi.path} ELSE @]
                 /\ queue' = Tail(queue)
                 /\ progress' = Tick(progress, progress.processed + Len(queue),
                                     progress.offset + progress.processed + 1)
                 /\ UNCHANGED <<pc, to_save, partials, futures, result>>
    /\ UNCHANGED <<cache, committed, lastOp, disk, store, scanner, finder>>

\* _calculate_full_hashes_serial returns, and the strategy saves and returns
FullSerialFinish ==
    /\ pc = "full_serial"
    /\ queue = <<>>
    /\ \E fault \in Faults :
         IF fault /\ hash_groups # <<>> /\ HasCache
         THEN /\ Abort(run, "set_batch")
              /\ UNCHANGED <<cache, committed>>
         ELSE /\ cache' = MultiStageSave(cache, hash_groups)
              /\ committed' = cache'
              /\ Return(hash_groups)
              /\ run' = WithSave(run, EntriesOf(hash_groups))
    /\ UNCHANGED <<lastOp, disk, store, scanner, finder, progress>>

\* _calculate_full_hashes_parallel: one iteration of the loop over
\* as_completed (lines 356-382)
FullParallelCollect ==
    /\ pc = "full_parallel"
    /\ \E i \in 1..Len(futures) :
         /\ futures[i].state = "done"
         /\ \E cancel \in BOOLEAN :
              IF cancel
              THEN /\ run' = [run EXCEPT !.cancelled = TRUE]
                   /\ Return(<<>>)
                   /\ UNCHANGED <<cache, committed, progress>>
              ELSE /\ CollectResult(i)
                   /\ progress' = Tick(progress, 0, progress.offset + progress.processed + 1)
                   /\ UNCHANGED <<cache, committed, pc, queue, partials, result>>
    /\ UNCHANGED <<lastOp, disk, store, scanner, finder>>

\* _calculate_full_hashes_parallel saves its batch and returns, and the
\* strategy saves and returns (lines 384-388, 257-271)
FullParallelFinish ==
    /\ pc = "full_parallel"
    /\ AllCollected(futures)
    /\ \E fault \in Faults, second \in BOOLEAN :
         IF fault /\ hash_groups # <<>> /\ HasCache
         THEN /\ Abort(IF second THEN WithSave(run, to_save) ELSE run, "set_batch")
              /\ cache' = IF second /\ to_save # <<>>
                          THEN CacheSetBatch(cache, to_save) ELSE cache
              /\ committed' = cache'
         ELSE /\ cache' = MultiStageSave(
                              IF to_save # <<>> /\ HasCache
                              THEN CacheSetBatch(cache, to_save)
                              ELSE cache,
                              hash_groups)
              /\ committed' = cache'
              /\ Return(hash_groups)
              /\ run' = WithSave(WithSave(run, to_save), EntriesOf(hash_groups))
    /\ UNCHANGED <<lastOp, disk, store, scanner, finder, progress>>

--------------------------------------------------------------------------
(* The environment *)

\* Between two scans the first file of the tree is rewritten: same size,
\* other bytes, and the write advances its modification time.  What the
\* scan before returned describes the tree no longer.
Rewrite ==
    /\ pc = "done"
    /\ run.n < MaxRuns
    /\ disk # <<>>
    /\ disk[1].mtime < MaxMtime
    /\ disk' = [disk EXCEPT ![1].head = "NEW", ![1].mtime = @ + 1]
    /\ pc' = "idle"
    /\ result' = <<>>
    /\ run' = NoRun(run.n)
    /\ progress' = NoProgress
    /\ hash_groups' = <<>>
    /\ UNCHANGED <<cache, committed, lastOp, store, scanner, finder, queue, to_save,
                   partials, futures>>

\* DuplicateFinder.clear_cache on a finder with a cache: the table is
\* emptied and the counters are set to 0; what the scan before returned
\* describes the cache no longer.  Without a cache the call does nothing.
ClearCache ==
    /\ Idle
    /\ HasCache
    /\ cache' = CacheClear(cache)
    /\ committed' = cache'
    /\ finder' = [finder EXCEPT !.cache_hits = 0, !.cache_misses = 0]
    /\ lastOp' = [op |-> "clear_cache",
                  had_entries |-> cache # {},
                  had_requests |-> finder.cache_hits + finder.cache_misses > 0]
    /\ pc' = "cleared"
    /\ result' = <<>>
    /\ run' = NoRun(run.n)
    /\ progress' = NoProgress
    /\ hash_groups' = <<>>
    /\ UNCHANGED <<disk, store, scanner, queue, to_save, partials, futures>>

\* main.py delete_duplicates: group.files[1:], the first file is kept
FilesToDeleteAll(group) == group.files

FilesToDelete(group) == SubSeq(group.files, 2, Len(group.files))

RECURSIVE DeleteTargets(_)
DeleteTargets(duplicate_groups) ==
    IF duplicate_groups = <<>> THEN <<>>
    ELSE FilesToDelete(Head(duplicate_groups)) \o DeleteTargets(Tail(duplicate_groups))

\* total_space += file_info.size
RECURSIVE TotalSpace(_)
TotalSpace(files) ==
    IF files = <<>> THEN 0 ELSE Head(files).size + TotalSpace(Tail(files))

\* The tree after os.remove (or send2trash) of the paths
RECURSIVE Remove(_, _)
Remove(d, paths) ==
    IF d = <<>> THEN <<>>
    ELSE IF Head(d).path \in paths THEN Remove(Tail(d), paths)
    ELSE <<Head(d)>> \o Remove(Tail(d), paths)

\* The CLI, after a scan that found groups and with --delete: counts the
\* files and the space, asks unless --force, and removes the files one by
\* one; a removal that raises is counted as failed and the file stays.  The
\* process ends with the command.
DeleteDuplicates ==
    /\ pc = "done"
    /\ result # <<>>
    /\ LET targets == DeleteTargets(result)
           paths == {targets[i].path : i \in 1..Len(targets)}
       IN \E confirmed \in BOOLEAN, failing \in SUBSET paths :
             /\ ~confirmed => failing = {}
             /\ disk' = IF confirmed THEN Remove(disk, paths \ failing) ELSE disk
             /\ lastOp' = [op |-> "delete_duplicates",
                           before |-> disk,
                           confirmed |-> confirmed,
                           total_to_delete |-> Len(targets),
                           total_space |-> TotalSpace(targets),
                           deleted_count |-> IF confirmed
                                             THEN Cardinality(paths \ failing) ELSE 0,
                           failed_count |-> Cardinality(failing)]
    /\ pc' = "deleted"
    /\ UNCHANGED <<cache, committed, store, scanner, finder, queue, hash_groups,
                   to_save, partials, futures, result, run, progress>>

--------------------------------------------------------------------------
(* The specification of the scans *)

Init ==
    /\ cache = {}
    /\ committed = {}
    /\ disk \in Trees
    /\ store = "sound"
    /\ scanner = NewScanner(NoExtensions)
    /\ \E parallel, cached, multi, procpool \in BOOLEAN :
          /\ finder = NewFinder(parallel, cached, multi, procpool)
          /\ lastOp = IF cached THEN InitDb(DEFAULT_CACHE_PATH, TRUE)
                       ELSE [op |-> "none"]
    /\ pc = "idle"
    /\ queue = <<>>
    /\ hash_groups = <<>>
    /\ to_save = <<>>
    /\ partials = <<>>
    /\ futures = <<>>
    /\ result = <<>>
    /\ run = NoRun(0)
    /\ progress = NoProgress

Next ==
    \/ Construct
    \/ FindDuplicatesStart
    \/ SerialStep
    \/ SerialFinish
    \/ ParallelLookup
    \/ WorkerHash
    \/ ThreadPoolCollect
    \/ ProcessPoolCollect
    \/ ParallelFinish
    \/ MultiStageStep
    \/ MultiStageSelect
    \/ FullSerialStep
    \/ FullSerialFinish
    \/ FullParallelCollect
    \/ FullParallelFinish
    \/ Rewrite

Spec == Init /\ [][Next]_vars

\* The scans on a store whose statements may fail (a database locked by
\* another process, a full or failing disk)
FaultTrees == {ScenarioTree, SortTree, LargeTree(LARGE_FILE_MIN_COUNT)}

FaultInit ==
    /\ cache = {}
    /\ committed = {}
    /\ disk \in FaultTrees
    /\ store = "failing"
    /\ scanner = NewScanner(NoExtensions)
    /\ \E parallel, cached, multi, procpool \in BOOLEAN :
          /\ finder = NewFinder(parallel, cached, multi, procpool)
          /\ lastOp = IF cached THEN InitDb(DEFAULT_CACHE_PATH, TRUE)
                       ELSE [op |-> "none"]
    /\ pc = "idle"
    /\ queue = <<>>
    /\ hash_groups = <<>>
    /\ to_save = <<>>
    /\ partials = <<>>
    /\ futures = <<>>
    /\ result = <<>>
    /\ run = NoRun(0)
    /\ progress = NoProgress

SpecFaults == FaultInit /\ [][Next]_vars

\* One finder on an unchanged tree: its scans, clear_cache between them,
\* and the deletion of the CLI after one
UseNext ==
    \/ FindDuplicatesStart
    \/ SerialStep
    \/ SerialFinish
    \/ ParallelLookup
    \/ WorkerHash
    \/ ThreadPoolCollect
    \/ ProcessPoolCollect
    \/ ParallelFinish
    \/ MultiStageStep
    \/ MultiStageSelect
    \/ FullSerialStep
    \/ FullSerialFinish
    \/ FullParallelCollect
    \/ FullParallelFinish
    \/ ClearCache
    \/ DeleteDuplicates

\* Large files that differ from one another in their first window
DistinctTree ==
    [i \in 1..LARGE_FILE_MIN_COUNT |->
        File(LargeNames[i], LARGE, 1, LargeNames[i], "W", "R", TRUE)]

UseTrees == {SortTree, TieTree, LargeTree(LARGE_FILE_MIN_COUNT), DistinctTree}

UseInit ==
    /\ cache = {}
    /\ committed = {}
    /\ disk \in UseTrees
    /\ store = "sound"
    /\ scanner = NewScanner(NoExtensions)
    /\ \E parallel, cached, multi, procpool \in BOOLEAN :
          /\ finder = NewFinder(parallel, cached, multi, procpool)
          /\ lastOp = IF cached THEN InitDb(DEFAULT_CACHE_PATH, TRUE)
                       ELSE [op |-> "none"]
    /\ pc = "idle"
    /\ queue = <<>>
    /\ hash_groups = <<>>
    /\ to_save = <<>>
    /\ partials = <<>>
    /\ futures = <<>>
    /\ result = <<>>
    /\ run = NoRun(0)
    /\ progress = NoProgress

SpecUse == UseInit /\ [][UseNext]_vars

\* The strategy selection on trees around its thresholds: files of exactly
\* 5 MB, ten large files in one and in two size groups, nine large files
\* with a tenth of a size of its own, small files, and no file.
SizedTree(sizes) ==
    [i \in 1..Len(sizes) |-> File(LargeNames[i], sizes[i], 1, "H", "W", "R", TRUE)]

SelectTrees ==
    {SizedTree([i \in 1..LARGE_FILE_MIN_COUNT |-> LARGE_FILE_SIZE] \o <<3, 3>>),
     SizedTree([i \in 1..LARGE_FILE_MIN_COUNT |-> LARGE]),
     SizedTree([i \in 1..(LARGE_FILE_MIN_COUNT - 1) |-> LARGE] \o <<LARGE + 1>>),
     SizedTree([i \in 1..LARGE_FILE_MIN_COUNT |-> IF i <= 5 THEN LARGE ELSE LARGE + 1]),
     SizedTree(<<>>),
     ScenarioTree, SortTree}

SelectInit ==
    /\ cache = {}
    /\ committed = {}
    /\ disk \in SelectTrees
    /\ store = "sound"
    /\ scanner = NewScanner(NoExtensions)
    /\ \E parallel, cached, multi, procpool \in BOOLEAN :
          /\ finder = NewFinder(parallel, cached, multi, procpool)
          /\ lastOp = IF cached THEN InitDb(DEFAULT_CACHE_PATH, TRUE)
                       ELSE [op |-> "none"]
    /\ pc = "idle"
    /\ queue = <<>>
    /\ hash_groups = <<>>
    /\ to_save = <<>>
    /\ partials = <<>>
    /\ futures = <<>>
    /\ result = <<>>
    /\ run = NoRun(0)
    /\ progress = NoProgress

SpecSelect == SelectInit /\ [][FindDuplicatesStart]_vars

--------------------------------------------------------------------------
(* The worker pools task by task: a worker takes a task from the work queue
   and later delivers its result, while the coordinator collects results,
   polls for cancellation and leaves the `with` block.  WorkerHash above
   takes the two worker steps as one, and ParallelCancel the poll and the
   exit of the `with` block as one. *)

\* max_workers of the pool
PoolWorkers == 2

RunningTasks(fs) == {i \in 1..Len(fs) : fs[i].state = "running"}

PendingTasks(fs) == {i \in 1..Len(fs) : fs[i].state = "pending"}

\* A worker takes the next task of the work queue (FIFO).
TaskStart ==
    /\ pc \in {"thread_pool", "process_pool", "full_parallel", "shutdown"}
    /\ Cardinality(RunningTasks(futures)) < PoolWorkers
    /\ PendingTasks(futures) # {}
    /\ LET i == CHOOSE k \in PendingTasks(futures) :
                   \A j \in PendingTasks(futures) : k <= j
       IN futures' = SetState(futures, i, "running")
    /\ UNCHANGED <<cache, committed, lastOp, disk, store, scanner, finder, pc, queue,
                   hash_groups, to_save, partials, result, run, progress>>

\* The worker has computed the hash of its task: calculate_file_hash in a
\* thread, _calculate_file_hash_static in a process.
TaskFinish ==
    /\ pc \in {"thread_pool", "process_pool", "full_parallel", "shutdown"}
    /\ \E i \in RunningTasks(futures) :
         /\ futures' = SetState(futures, i, "done")
         /\ run' = [run EXCEPT !.full_hashed = @ \cup {futures[i].file.path}]
    /\ UNCHANGED <<cache, committed, lastOp, disk, store, scanner, finder, pc, queue,
                   hash_groups, to_save, partials, result, progress>>

\* `for f in future_to_file: f.cancel()`: a future that has not started is
\* cancelled, a running or finished one is left as it is.  The loop over
\* the results of executor.map cancels nothing.
CancelFutures(fs, process_pool) ==
    [i \in 1..Len(fs) |->
        IF ~process_pool /\ fs[i].state = "pending"
        THEN [fs[i] EXCEPT !.state = "cancelled"]
        ELSE fs[i]]

\* One iteration of a loop over the results of the pool: the poll of
\* cancel_callback, then the result of task i is taken.
PoolCollect ==
    /\ pc \in {"thread_pool", "process_pool", "full_parallel"}
    /\ \E i \in 1..Len(futures) :
         /\ futures[i].state = "done"
         /\ pc = "process_pool" => \A j \in 1..(i - 1) : futures[j].state = "collected"
         /\ \E cancel \in BOOLEAN :
              IF cancel
              THEN /\ futures' = CancelFutures(futures, pc = "process_pool")
                   /\ run' = [run EXCEPT !.cancelled = TRUE]
                   /\ pc' = "shutdown"
                   /\ UNCHANGED <<cache, committed, queue, hash_groups, to_save,
                                  partials, result, progress>>
              ELSE /\ CollectResult(i)
                   /\ progress' =
                        IF pc = "full_parallel"
                        THEN Tick(progress, 0, progress.offset + progress.processed + 1)
                        ELSE Tick(progress, progress.total, progress.processed + 1)
                   /\ UNCHANGED <<cache, committed, pc, queue, partials, result>>
    /\ UNCHANGED <<lastOp, disk, store, scanner, finder>>

\* Executor.__exit__ is shutdown(wait=True): it returns when no task is
\* running and none is waiting in the work queue.
ShutdownNoWait(fs) == TRUE

ShutdownComplete(fs) == RunningTasks(fs) = {} /\ PendingTasks(fs) = {}

\* The `with` block is left after a cancellation.  The parallel strategy
\* then saves its batch and returns hash_groups (lines 617-621); the
\* full-hash pass of multi-stage has returned {} (line 360).
PoolExit ==
    /\ pc = "shutdown"
    /\ ShutdownComplete(futures)
    /\ IF run.strategy = "multi_stage"
       THEN /\ Return(<<>>)
            /\ UNCHANGED <<cache, committed, run>>
       ELSE /\ cache' = IF to_save # <<>> /\ HasCache
                        THEN CacheSetBatch(cache, to_save) ELSE cache
            /\ committed' = cache'
            /\ run' = WithSave(run, to_save)
            /\ Return(hash_groups)
    /\ UNCHANGED <<lastOp, disk, store, scanner, finder, progress>>

PoolTrees == {TwoGroupTree, SortTree, LargeTree(LARGE_FILE_MIN_COUNT)}

PoolInit ==
    /\ cache = {}
    /\ committed = {}
    /\ disk \in PoolTrees
    /\ store = "sound"
    /\ scanner = NewScanner(NoExtensions)
    /\ \E parallel, cached, multi, procpool \in BOOLEAN :
          /\ finder = NewFinder(parallel, cached, multi, procpool)
          /\ lastOp = IF cached THEN InitDb(DEFAULT_CACHE_PATH, TRUE)
                       ELSE [op |-> "none"]
    /\ pc = "idle"
    /\ queue = <<>>
    /\ hash_groups = <<>>
    /\ to_save = <<>>
    /\ partials = <<>>
    /\ futures = <<>>
    /\ result = <<>>
    /\ run = NoRun(0)
    /\ progress = NoProgress

\* The steps of the thread that called find_duplicates
Coordinator ==
    \/ SerialStep
    \/ SerialFinish
    \/ ParallelLookup
    \/ PoolCollect
    \/ PoolExit
    \/ ParallelFinish
    \/ MultiStageStep
    \/ MultiStageSelect
    \/ FullSerialStep
    \/ FullSerialFinish
    \/ FullParallelFinish

\* The steps of the pool's workers
Workers ==
    \/ TaskStart
    \/ TaskFinish

PoolNext ==
    \/ FindDuplicatesStart
    \/ Coordinator
    \/ Workers

SpecPool == PoolInit /\ [][PoolNext]_vars

\* The caller's thread runs, and the pool schedules its workers fairly.
SpecPoolFair == SpecPool /\ WF_vars(Coordinator) /\ WF_vars(Workers)

--------------------------------------------------------------------------
(* The specification of progress reporting: the multi-stage strategy with
   the serial full-hash pass, on trees of equal large files *)

MaxProgressFiles == 21

ProgressNames ==
    <<"a", "b", "c", "d", "e", "f", "g", "h", "i", "j", "k", "l", "m",
      "n", "o", "p", "q", "r", "s", "t", "u", "v", "w", "x", "y", "z">>

\* n byte-identical files over 5 MB
EqualLargeTree(n) ==
    [i \in 1..n |-> File(ProgressNames[i], LARGE, 1, "H", "W", "R", TRUE)]

ProgressTrees ==
    {EqualLargeTree(n) : n \in LARGE_FILE_MIN_COUNT..MaxProgressFiles}

ProgressInit ==
    /\ cache = {}
    /\ committed = {}
    /\ disk \in ProgressTrees
    /\ store = "sound"
    /\ scanner = NewScanner(NoExtensions)
    /\ \E cached \in BOOLEAN :
          /\ finder = NewFinder(FALSE, cached, TRUE, FALSE)
          /\ lastOp = IF cached THEN InitDb(DEFAULT_CACHE_PATH, TRUE)
                       ELSE [op |-> "none"]
    /\ pc = "idle"
    /\ queue = <<>>
    /\ hash_groups = <<>>
    /\ to_save = <<>>
    /\ partials = <<>>
    /\ futures = <<>>
    /\ result = <<>>
    /\ run = NoRun(0)
    /\ progress = NoProgress

ProgressNext ==
    \/ FindDuplicatesStart
    \/ MultiStageStep
    \/ MultiStageSelect
    \/ FullSerialStep
    \/ FullSerialFinish

SpecProgress == ProgressInit /\ [][ProgressNext]_vars

--------------------------------------------------------------------------
(* The specification of the scanner: scan_directory on any small tree *)

MaxEntries == 2

\* What a tree is made of: files with and without extension, denied by
\* extension and by name, empty, a directory that can be read and one that
\* cannot, a file whose stat is denied and one whose stat is lost.
ScanEntries ==
    {TreeEntry("file", <<"a", ".", "m", "p", "4">>, 1, TRUE, "ok"),
     TreeEntry("file", <<"b", ".", "M", "P", "4">>, 2, TRUE, "ok"),
     TreeEntry("file", <<"c", ".", "i", "s", "o">>, 1, TRUE, "ok"),
     TreeEntry("file", <<"d", ".", "I", "S", "O">>, 1, TRUE, "ok"),
     TreeEntry("file", <<".", "_", "e", ".", "m", "p", "4">>, 1, TRUE, "ok"),
     TreeEntry("file", <<".", "D", "S", "_", "S", "t", "o", "r", "e">>, 1, TRUE, "ok"),
     TreeEntry("file", <<"f">>, 1, TRUE, "ok"),
     TreeEntry("file", <<"g", ".", "t", "x", "t">>, 0, TRUE, "ok"),
     TreeEntry("file", <<"h", ".", "t", "x", "t">>, 1, FALSE, "ok"),
     TreeEntry("dir", <<"s">>, 1, TRUE, "ok"),
     TreeEntry("dir", <<"p">>, 1, FALSE, "ok"),
     TreeEntry("file", <<"i", ".", "m", "p", "4">>, 1, TRUE, "denied"),
     TreeEntry("file", <<"j", ".", "m", "p", "4">>, 1, TRUE, "lost")}

ScanTrees ==
    {t \in UNION {[1..n -> ScanEntries] : n \in 0..MaxEntries} :
        \A i, j \in DOMAIN t : i # j => t[i].path # t[j].path}

ScanExtensions ==
    {NoExtensions,
     Extensions({}),
     Extensions({<<"m", "p", "4">>}),
     Extensions({<<".", "M", "P", "4">>}),
     Extensions({<<"M", "p", "4">>, <<".", "t", "x", "t">>}),
     Extensions({<<>>})}

\* scanner.scan_directory(root), called directly
ScanDirectoryCall ==
    /\ pc = "idle"
    /\ LET scanned == ScanDirectory(disk, scanner.extensions) IN
         /\ scanner' = AfterScan(scanner, scanned)
         /\ result' = scanned.files
         /\ pc' = IF scanned.raised = "" THEN "scanned" ELSE "scan_raised"
    /\ UNCHANGED <<cache, committed, lastOp, disk, store, finder, queue,
                   hash_groups, to_save, partials, futures, run, progress>>

\* FileScanner(extensions): another scanner for the same tree
ConstructScanner ==
    /\ pc \in {"scanned", "scan_raised"}
    /\ \E extensions \in ScanExtensions : scanner' = NewScanner(extensions)
    /\ result' = <<>>
    /\ pc' = "idle"
    /\ UNCHANGED <<cache, committed, lastOp, disk, store, finder, queue,
                   hash_groups, to_save, partials, futures, run, progress>>

ScanInit ==
    /\ cache = {}
    /\ committed = {}
    /\ lastOp = [op |-> "none"]
    /\ disk \in ScanTrees
    /\ store = "sound"
    /\ \E extensions \in ScanExtensions : scanner = NewScanner(extensions)
    /\ finder = NewFinder(FALSE, FALSE, FALSE, FALSE)
    /\ pc = "idle"
    /\ queue = <<>>
    /\ hash_groups = <<>>
    /\ to_save = <<>>
    /\ partials = <<>>
    /\ futures = <<>>
    /\ result = <<>>
    /\ run = NoRun(0)
    /\ progress = NoProgress

ScanNext ==
    \/ ScanDirectoryCall
    \/ ConstructScanner

SpecScan == ScanInit /\ [][ScanNext]_vars

--------------------------------------------------------------------------
(* The specification of the hash calculator: construction and hashing *)

MaxHashCalls == 2

HashTrees == {ScenarioTree, TwoGroupTree}

AlgorithmNames ==
    {<<"s", "h", "a", "2", "5", "6">>,
     <<"S", "H", "A", "2", "5", "6">>,
     <<"S", "h", "a", "3", "_", "5", "1", "2">>,
     <<"s", "h", "a", "5", "1", "2">>,
     <<"m", "d", "5">>,
     <<"s", "h", "a", "1">>}

\* HashCalculator(algorithm): when it raises, the calculator there was
\* stays the one in use
ConstructCalculator ==
    /\ \E algorithm \in AlgorithmNames :
         LET calculator == NewHashCalculator(algorithm) IN
         /\ lastOp' = [op |-> "HashCalculator", algorithm |-> algorithm,
                       raised |-> calculator.raised]
         /\ IF calculator.raised = ""
            THEN /\ finder' = [finder EXCEPT !.hash_calculator = calculator]
                 /\ result' = <<>>
            ELSE UNCHANGED <<finder, result>>
    /\ UNCHANGED <<cache, committed, disk, store, scanner, pc, queue, hash_groups,
                   to_save, partials, futures, run, progress>>

\* One full hash of a file of the tree, by the method of the calculator (the
\* worker of the serial loop and of the thread pool) or by the static
\* function (the worker of the process pool), which is passed the
\* algorithm of the calculator.  `result` is the list of the calls made
\* with the calculator in use.
HashCall ==
    /\ Len(result) < MaxHashCalls
    /\ \E i \in 1..Len(disk),
          worker \in {"calculate_file_hash", "_calculate_file_hash_static"} :
         result' = Append(result,
            [worker |-> worker,
             path |-> disk[i].path,
             algorithm |-> finder.hash_calculator.algorithm,
             value |-> IF worker = "calculate_file_hash"
                       THEN CalculateFileHash(disk, disk[i].path)
                       ELSE CalculateFileHashStatic(disk, disk[i].path,
                                finder.hash_calculator.algorithm)])
    /\ UNCHANGED <<cache, committed, lastOp, disk, store, scanner, finder, pc,
                   queue, hash_groups, to_save, partials, futures, run, progress>>

HashInit ==
    /\ cache = {}
    /\ committed = {}
    /\ lastOp = [op |-> "none"]
    /\ disk \in HashTrees
    /\ store = "sound"
    /\ scanner = NewScanner(NoExtensions)
    /\ finder = NewFinder(FALSE, FALSE, FALSE, FALSE)
    /\ pc = "idle"
    /\ queue = <<>>
    /\ hash_groups = <<>>
    /\ to_save = <<>>
    /\ partials = <<>>
    /\ futures = <<>>
    /\ result = <<>>
    /\ run = NoRun(0)
    /\ progress = NoProgress

HashNext ==
    \/ ConstructCalculator
    \/ HashCall

SpecHash == HashInit /\ [][HashNext]_vars

--------------------------------------------------------------------------
(* The specification of the cache API: any sequence of calls on one store *)

PathAB == <<"/", "a", "/", "b">>
PathABX == <<"/", "a", "/", "b", "/", "x">>
PathABCX == <<"/", "a", "/", "b", "c", "/", "x">>
PathAC == <<"/", "a", "/", "c">>

CachePaths == {PathAB, PathABX, PathABCX}
CacheSizes == 1..MaxCacheSize
CacheMtimes == {1, 2}
CacheHashes == {<<"h1">>, <<"h2">>}
Prefixes == {<<>>, PathAB, PathAB \o <<"/">>, PathAC, <<"/", "a">>,
             <<"/", "a", "/", ".", "/", "b">>}

ApiSet ==
    /\ \E p \in CachePaths, s \in CacheSizes, m \in CacheMtimes, h \in CacheHashes :
         /\ cache' = CacheSet(cache, p, s, m, h)
         /\ committed' = cache'
         /\ lastOp' = [op |-> "set", row |-> Row(p, s, m, h)]
    /\ UNCHANGED <<disk, store, scanner, finder, pc, queue, hash_groups, to_save, partials,
                   futures, result, run, progress>>

ApiInvalidate ==
    /\ \E p \in CachePaths :
         /\ cache' = CacheInvalidate(cache, p)
         /\ committed' = cache'
         /\ lastOp' = [op |-> "invalidate", path |-> p]
    /\ UNCHANGED <<disk, store, scanner, finder, pc, queue, hash_groups, to_save, partials,
                   futures, result, run, progress>>

\* invalidate_by_prefix: an empty prefix is rejected with ValidationError
ApiInvalidateByPrefix ==
    /\ \E prefix \in Prefixes :
         IF prefix = <<>>
         THEN /\ lastOp' = [op |-> "invalidate_by_prefix", prefix |-> prefix,
                            raised |-> "ValidationError", removed |-> 0]
              /\ UNCHANGED <<cache, committed>>
         ELSE /\ cache' = CacheInvalidateByPrefix(cache, prefix)
              /\ committed' = cache'
              /\ lastOp' = [op |-> "invalidate_by_prefix", prefix |-> prefix,
                            raised |-> "",
                            removed |-> Cardinality(cache \ CacheInvalidateByPrefix(cache, prefix))]
    /\ UNCHANGED <<disk, store, scanner, finder, pc, queue, hash_groups, to_save, partials,
                   futures, result, run, progress>>

ApiClear ==
    /\ cache' = CacheClear(cache)
    /\ committed' = cache'
    /\ lastOp' = [op |-> "clear"]
    /\ UNCHANGED <<disk, store, scanner, finder, pc, queue, hash_groups, to_save, partials,
                   futures, result, run, progress>>

CacheInit ==
    /\ cache = {}
    /\ committed = {}
    /\ lastOp = [op |-> "none"]
    /\ disk = <<>>
    /\ store = "sound"
    /\ scanner = NewScanner(NoExtensions)
    /\ finder = NewFinder(FALSE, TRUE, FALSE, FALSE)
    /\ pc = "idle"
    /\ queue = <<>>
    /\ hash_groups = <<>>
    /\ to_save = <<>>
    /\ partials = <<>>
    /\ futures = <<>>
    /\ result = <<>>
    /\ run = NoRun(0)
    /\ progress = NoProgress

CacheNext ==
    \/ ApiSet
    \/ ApiInvalidate
    \/ ApiInvalidateByPrefix
    \/ ApiClear

SpecCache == CacheInit /\ [][CacheNext]_vars

--------------------------------------------------------------------------
(* The specification of the store: single and batched writes, batched    *)
(* reads and clean-up on one connection                                  *)

StorePaths == {PathAB, PathABX}

StoreRows ==
    {Row(p, 1, m, h) : p \in StorePaths, m \in CacheMtimes, h \in CacheHashes}

\* The entries a batch is made of: rows, and one entry without a hash
BatchEntries == StoreRows \cup {Row(PathAB, 1, 1, None)}

Batches ==
    {<<>>} \cup {<<e>> : e \in BatchEntries}
           \cup {<<e, f>> : e \in BatchEntries, f \in BatchEntries}

Triples == {<<p, 1, m>> : p \in StorePaths, m \in CacheMtimes}

TripleLists ==
    {<<>>} \cup {<<t>> : t \in Triples} \cup {<<t, u>> : t \in Triples, u \in Triples}

StoreSet ==
    /\ \E row \in StoreRows :
         /\ cache' = CacheSet(cache, row.path, row.size, row.mtime, row.hash_value)
         /\ committed' = cache'
         /\ lastOp' = [op |-> "set", row |-> row]
    /\ UNCHANGED <<disk, store, scanner, finder, pc, queue, hash_groups, to_save, partials,
                   futures, result, run, progress>>

\* set_batch: nothing at all for an empty list; otherwise executemany and,
\* when it has not raised, commit
ApiSetBatch ==
    /\ \E entries \in Batches :
         IF entries = <<>>
         THEN /\ lastOp' = [op |-> "set_batch", entries |-> entries, raised |-> ""]
              /\ UNCHANGED <<cache, committed>>
         ELSE IF FirstInvalid(entries) = 0
         THEN /\ cache' = ExecuteMany(cache, entries)
              /\ committed' = cache'
              /\ lastOp' = [op |-> "set_batch", entries |-> entries, raised |-> ""]
         ELSE /\ cache' = ExecuteMany(cache, entries)
              /\ lastOp' = [op |-> "set_batch", entries |-> entries,
                            raised |-> "IntegrityError"]
              /\ UNCHANGED committed
    /\ UNCHANGED <<disk, store, scanner, finder, pc, queue, hash_groups, to_save, partials,
                   futures, result, run, progress>>

ApiGetBatch ==
    /\ \E infos \in TripleLists :
         lastOp' = [op |-> "get_batch", infos |-> infos,
                    result |-> CacheGetBatch(cache, infos)]
    /\ UNCHANGED <<cache, committed, disk, store, scanner, finder, pc, queue, hash_groups,
                   to_save, partials, futures, result, run, progress>>

\* cleanup_invalid_paths(valid_paths), and cleanup_invalid_paths() where
\* `valid` is the set of cached paths whose file exists
ApiCleanupInvalidPaths ==
    /\ \E valid \in SUBSET StorePaths, explicit \in BOOLEAN :
         /\ cache' = CacheCleanupInvalidPaths(cache, valid)
         /\ committed' = cache'
         /\ lastOp' = [op |-> "cleanup_invalid_paths", explicit |-> explicit,
                       valid |-> valid,
                       removed |-> Cardinality(cache \ CacheCleanupInvalidPaths(cache, valid))]
    /\ UNCHANGED <<disk, store, scanner, finder, pc, queue, hash_groups, to_save, partials,
                   futures, result, run, progress>>

StoreNext ==
    \/ StoreSet
    \/ ApiSetBatch
    \/ ApiGetBatch
    \/ ApiInvalidate
    \/ ApiClear
    \/ ApiCleanupInvalidPaths

SpecStore == CacheInit /\ [][StoreNext]_vars

--------------------------------------------------------------------------
(* Properties of find_duplicates *)

\* The call has returned; the tree is as the call saw it.
Returned == pc = "done"

\* The call went through a hashing stage to its end.
Completed == Returned /\ run.strategy # "none" /\ ~run.cancelled

Scanned == RecordPass(disk, scanner.extensions, <<>>, <<>>).files

Candidates == Flatten(PotentialDuplicates(Scanned))

Members(g) == {g.files[j].path : j \in 1..Len(g.files)}

\* C1: every returned DuplicateGroup has at least two members, all of the
\* same size and all with the same full hash, which is the group's
\* hash_value.
C1_GroupingInvariant ==
    Returned =>
        \A i \in 1..Len(result) :
            LET g == result[i] IN
            /\ Len(g.files) >= 2
            /\ \A j \in 1..Len(g.files) :
                 /\ g.files[j].size = g.files[1].size
                 /\ CalculateFileHash(disk, g.files[j].path) = g.hash_value

\* A call that took a hash from the cache has returned a group.
C1_Witness == Returned /\ result # <<>> /\ run.hits > 0

\* C2: once a poll of the hashing phase has returned true, find_duplicates
\* returns the empty list.
C2_CancelReturnsEmpty == (Returned /\ run.cancelled) => result = <<>>

\* C3: after a call that was not cancelled, any two readable, eligible
\* files of equal content are members of one returned group.
SameGroup(p, q) == \E i \in 1..Len(result) : {p, q} \subseteq Members(result[i])

C3_EqualFilesGrouped ==
    Completed =>
        \A i, j \in 1..Len(disk) :
            (/\ i # j
             /\ ~ShouldSkipFile(disk[i], scanner.extensions)
             /\ ~ShouldSkipFile(disk[j], scanner.extensions)
             /\ disk[i].readable /\ disk[j].readable
             /\ FullBytes(disk[i]) = FullBytes(disk[j]))
            => SameGroup(disk[i].path, disk[j].path)

\* C4: a second call on the unchanged tree, cache enabled in both, returns
\* the groups of the first and finds every readable file it looks up in the
\* cache.

GroupSet(groups) ==
    {[hash_value |-> groups[i].hash_value, members |-> Members(groups[i])] :
        i \in 1..Len(groups)}

C4_RerunIdempotent ==
    (Completed /\ run.rerun) =>
        /\ GroupSet(result) = GroupSet(run.first_result)
        /\ \A p \in run.missed : ~disk[OnDisk(disk, p)].readable

\* C6: a file whose size no other enumerated file has is never hashed,
\* never looked up in or written to the cache, and is in no group.
UniqueSize(files, fi) == \A k \in 1..Len(files) : files[k].size = fi.size => files[k] = fi

C6_SingletonSizeUntouched ==
    LET files == Scanned IN
    \A k \in 1..Len(files) :
        UniqueSize(files, files[k]) =>
            LET p == files[k].path IN
            /\ p \notin run.looked_up
            /\ p \notin run.partial_hashed
            /\ p \notin run.full_hashed
            /\ \A r \in cache \ run.cache_at_start : r.path # p
            /\ \A i \in 1..Len(result) : p \notin Members(result[i])

\* A scan of a tree with a file of unique size has returned a group.
C6_Witness ==
    /\ Completed
    /\ result # <<>>
    /\ \E k \in 1..Len(Scanned) : UniqueSize(Scanned, Scanned[k])

\* C7: in the multi-stage strategy a cache hit ends the work on that file
\* only: every other candidate is still looked up.
C7_HitSkipsOnlyThatFile ==
    (Completed /\ run.strategy = "multi_stage" /\ run.short_circuit # {}) =>
        \A k \in 1..Len(Candidates) : Candidates[k].path \in run.looked_up

\* C9: when a hashing stage observes cancellation, every full hash it has
\* computed and collected is in the cache when find_duplicates returns.
C9_CollectedFlushedOnCancel ==
    (Returned /\ run.cancelled /\ run.cache_on) =>
        LET files == Scanned IN
        \A k \in 1..Len(files) :
            files[k].path \in run.collected =>
                CacheGet(cache, files[k].path, files[k].size, files[k].mtime)
                    = CalculateFileHash(disk, files[k].path)

\* C10: the cache entries a cancelled call has added are entries of files
\* whose computed hash the coordinator had collected.
C10_OnlyCollectedCached ==
    (Returned /\ run.cancelled) =>
        \A r \in cache \ run.cache_at_start : r.path \in run.collected

\* A cancelled call has added an entry and has left a computed hash
\* uncollected.
C10_Witness ==
    /\ Returned
    /\ run.cancelled
    /\ cache \ run.cache_at_start # {}
    /\ run.full_hashed \ run.collected # {}

\* C11: when the hash of a candidate cannot be computed during a call that
\* is not cancelled, the file is in no group and has no cache entry, the
\* call returns, and every other candidate is still processed and grouped
\* with the files equal to it.
Unreadable(p) == ~disk[OnDisk(disk, p)].readable

Processed(p) ==
    p \in (run.looked_up \ run.missed) \cup run.partial_hashed \cup run.full_hashed

HashFailed ==
    \E p \in run.partial_hashed \cup run.full_hashed : Unreadable(p)

NonDecreasing(calls) ==
    \A i \in 1..(Len(calls) - 1) : calls[i][1] <= calls[i + 1][1]

C12_ProgressMonotonic ==
    NonDecreasing(progress.hash) /\ NonDecreasing(progress.scan)

\* The full-hash pass of multi-stage, run on the thread pool, has reported
\* after the partial-hash stage did, and the call has returned.
C12_Witness ==
    /\ Completed
    /\ run.strategy = "multi_stage"
    /\ finder.use_parallel
    /\ progress.offset > 0
    /\ progress.processed > 1
    /\ Len(progress.scan) > 1

\* C13: when the hashing phase has a candidate and ends without
\* cancellation, the hash-progress callback has been called with processed
\* equal to total.
C13_CompletionReported ==
    (Completed /\ progress.total > 0) =>
        \E i \in 1..Len(progress.hash) :
            progress.hash[i] = <<progress.total, progress.total>>

\* C14: the wasted space of the returned groups is the sum, over the
\* groups, of (k - 1) * s for a group of k files of size s; it is 0 for the
\* empty list.
RECURSIVE AllButOneCopy(_)
AllButOneCopy(groups) ==
    IF groups = <<>> THEN 0
    ELSE (Len(Head(groups).files) - 1) * Head(groups).files[1].size
         + AllButOneCopy(Tail(groups))

C14_WastedSpaceLaw ==
    Returned =>
        /\ GetTotalWastedSpace(result) = AllButOneCopy(result)
        /\ \A i \in 1..Len(result) : \A j \in 1..Len(result[i].files) :
              result[i].files[j].size = result[i].files[1].size
        /\ result = <<>> => GetTotalWastedSpace(result) = 0

\* Two groups of different sizes and member counts have been returned.
C14_Witness ==
    /\ Returned
    /\ Len(result) = 2
    /\ Len(result[1].files) # Len(result[2].files)
    /\ GetTotalWastedSpace(result) > 0

\* C15: the returned list is in descending order of total_size, the
\* total_size of a group is its member size times its member count, and
\* groups of equal total_size are in the order in which their hashes were
\* first put into the hash groups.
KeyIndex(groups, key) == CHOOSE n \in 1..Len(groups) : groups[n].key = key

C15_SortedStable ==
    Returned =>
        /\ \A i \in 1..Len(result) :
              result[i].total_size = result[i].files[1].size * Len(result[i].files)
        /\ \A i, j \in 1..Len(result) :
              i < j =>
                /\ result[i].total_size >= result[j].total_size
                /\ result[i].total_size = result[j].total_size =>
                      KeyIndex(hash_groups, result[i].hash_value)
                          < KeyIndex(hash_groups, result[j].hash_value)

\* The pool has returned two groups of equal total_size, and the hash met
\* first was not the hash of the first candidate.
C15_Witness ==
    /\ Returned
    /\ run.strategy = "parallel"
    /\ Len(result) = 2
    /\ result[1].total_size = result[2].total_size
    /\ result[1].hash_value # CalculateFileHash(disk, Candidates[1].path)

\* C20: after a call has returned, get_cache_stats reports the hits and
\* the misses of that call: as many as the call made cache lookups, and the
\* hit rate is hits / (hits + misses), or 0 when there was no lookup.
C20_StatsOfThisCall ==
    (Returned /\ HasCache /\ run.n > 0) =>
        LET stats == GetCacheStats(finder)
            lookups == Cardinality(run.looked_up)
        IN /\ stats.hits = run.hits
           /\ stats.misses = Cardinality(run.missed)
           /\ stats.hits + stats.misses = lookups
           /\ stats.hit_rate = IF lookups > 0 THEN <<run.hits, lookups>> ELSE 0

\* C21: when the store cannot be initialised, constructing the cache (and
\* so a finder with the cache enabled) fails with a CacheError that carries
\* the path of the store, and no scan work has been done for that finder.
C21_InitFailureIsCacheError ==
    (lastOp.op = "init" /\ lastOp.raised # "") =>
        /\ lastOp.raised = "CacheError"
        /\ lastOp.db_path = lastOp.cache_path
        /\ pc = "failed"
        /\ run.strategy = "none"
        /\ run.looked_up = {} /\ run.partial_hashed = {} /\ run.full_hashed = {}

\* C22: a cache get, get_batch or set_batch that fails during a call does
\* not end the call with an exception: the lookup counts as a miss, the
\* write is dropped, every candidate is still hashed and the call returns.
C22_CacheFaultDegrades ==
    run.faults \cap {"get", "get_batch", "set_batch"} # {} =>
        /\ pc # "raised"
        /\ Completed =>
              LET cands == Candidates IN
              \A k \in 1..Len(cands) :
                  cands[k].path \in run.partial_hashed \cup run.full_hashed

\* C27: after clear_cache, which clears the cache of the finder, the cache
\* has no entry, get returns none for every file, and the hit and miss
\* counters of the finder are 0, whatever the calls before have written.
C27_ClearEmptiesAndResets ==
    pc = "cleared" =>
        /\ Cardinality(cache) = 0
        /\ Cardinality(committed) = 0
        /\ \A i \in 1..Len(disk) :
              CacheGet(cache, disk[i].path, disk[i].size, disk[i].mtime) = None
        /\ finder.cache_hits = 0
        /\ finder.cache_misses = 0
        /\ GetCacheStats(finder).hit_rate = 0

\* clear_cache has cleared a cache that had entries, on a finder that had
\* counted lookups.
C27_Witness ==
    /\ pc = "cleared"
    /\ lastOp.had_entries
    /\ lastOp.had_requests

\* C28: the deletion of the CLI keeps the first file of every group and
\* removes only other members of the groups, so a file with the content of
\* every group remains in the tree, and the space it reports as freed is
\* get_total_wasted_space of the groups.
C28_DeleteKeepsFirst ==
    pc = "deleted" =>
        LET before == lastOp.before
            gone == {before[i].path : i \in 1..Len(before)}
                    \ {disk[i].path : i \in 1..Len(disk)}
            algorithm == finder.hash_calculator.algorithm
        IN /\ \A k \in 1..Len(result) :
                 /\ result[k].files[1].path \notin gone
                 /\ \E i \in 1..Len(disk) :
                       HashOf(algorithm, disk[i]) = result[k].hash_value
           /\ \A path \in gone :
                 \E k \in 1..Len(result) :
                    \E j \in 2..Len(result[k].files) :
                       result[k].files[j].path = path
           /\ (lastOp.confirmed /\ lastOp.failed_count = 0) =>
                 \A k \in 1..Len(result) :
                    \A j \in 2..Len(result[k].files) :
                       result[k].files[j].path \in gone
           /\ lastOp.total_space = GetTotalWastedSpace(result)

\* The deletion has removed three files of two groups.
C28_Witness ==
    /\ pc = "deleted"
    /\ lastOp.confirmed
    /\ lastOp.deleted_count >= 3
    /\ Len(result) = 2
    /\ Len(disk) < Len(lastOp.before)

\* C29: a call that reaches the hashing stage uses the multi-stage strategy
\* exactly when the multi-stage toggle is on and at least 10 of the files
\* that share their size with another file are larger than 5 MB; otherwise
\* the parallel strategy exactly when the parallel toggle is on and more
\* than one size is shared; otherwise the serial strategy.
C29_StrategySelection ==
    run.strategy # "none" =>
        LET files == Scanned
            surviving == {i \in 1..Len(files) :
                            \E j \in 1..Len(files) :
                               j # i /\ files[j].size = files[i].size}
            large == {i \in surviving : files[i].size > LARGE_FILE_SIZE}
            sizes == {files[i].size : i \in surviving}
            multi == finder.use_multi_stage /\ Cardinality(large) >= LARGE_FILE_MIN_COUNT
            parallel == ~multi /\ finder.use_parallel /\ Cardinality(sizes) > 1
        IN /\ run.strategy = "multi_stage" <=> multi
           /\ run.strategy = "parallel" <=> parallel
           /\ run.strategy = "serial" <=> (~multi /\ ~parallel)

\* With the multi-stage toggle on and ten files of exactly 5 MB among the
\* candidates, the call hashes in parallel.
C29_Witness ==
    /\ run.strategy = "parallel"
    /\ pc = "parallel"
    /\ finder.use_multi_stage
    /\ Cardinality({i \in 1..Len(disk) : disk[i].size = LARGE_FILE_SIZE})
         >= LARGE_FILE_MIN_COUNT

\* C30: in the multi-stage strategy a full hash is computed only for
\* candidates whose partial hash another candidate has; a candidate alone
\* with its partial hash is in no returned group; and when no two
\* candidates have the same partial hash and the cache was empty, a call
\* that goes to its end computes no full hash and returns no group.
C30_FullHashOnlyForSharedPartial ==
    (run.strategy = "multi_stage" /\ pc # "deleted") =>
        LET all == Candidates
            partial(i) == CalculatePartialHash(disk, all[i].path, all[i].size)
            shared == {all[i].path :
                          i \in {k \in 1..Len(all) :
                                    /\ partial(k) # None
                                    /\ \E j \in 1..Len(all) :
                                          j # k /\ partial(j) = partial(k)}}
        IN /\ run.full_hashed \subseteq shared
           /\ Returned => \A k \in 1..Len(result) : Members(result[k]) \subseteq shared
           /\ (Completed /\ shared = {} /\ run.cache_at_start = {}) =>
                 /\ Cardinality(run.full_hashed) = 0
                 /\ Len(result) = 0

\* A multi-stage call on an empty cache went to its end over ten large
\* files with ten partial hashes.
C30_Witness ==
    /\ Completed
    /\ run.strategy = "multi_stage"
    /\ run.cache_at_start = {}
    /\ disk = DistinctTree
    /\ Cardinality(run.partial_hashed) = LARGE_FILE_MIN_COUNT
    /\ run.full_hashed = {}

\* C32: during one call set_batch is called at most once by each hashing
\* pass (once in the serial and the parallel strategy, and in the
\* multi-stage strategy once by the full-hash pass and once by the
\* strategy), and no entry is in two of the batches written.
C32_SingleBatchPerPass ==
    /\ Len(run.saves) <= (IF run.strategy = "multi_stage" THEN 2 ELSE 1)
    /\ \A i, j \in 1..Len(run.saves) :
          i # j => run.saves[i] \cap run.saves[j] = {}

\* C33: a call that was not cancelled returns the groups of the serial
\* strategy on the same tree and the same cache content, whatever strategy
\* it took: the candidates grouped by full hash, the hash of a candidate
\* taken from the cache where the cache has it and computed otherwise.
C33_HashOf(f) ==
    LET cached == CacheGet(run.cache_at_start, f.path, f.size, f.mtime) IN
    IF run.cache_on /\ cached # None THEN cached
    ELSE CalculateFileHash(disk, f.path)

C33_SerialGroups ==
    LET cands == Candidates
        hashOf == [k \in 1..Len(cands) |-> C33_HashOf(cands[k])]
        sameAs(k) == {cands[j].path : j \in {j \in 1..Len(cands) :
                                               /\ hashOf[j] = hashOf[k]
                                               /\ cands[j].size = cands[k].size}}
    IN  {[hash_value |-> hashOf[k], members |-> sameAs(k)] :
            k \in {k \in 1..Len(cands) :
                     hashOf[k] # None /\ Cardinality(sameAs(k)) > 1}}

C33_StrategiesAgree == Completed => GroupSet(result) = C33_SerialGroups

\* The serial, the thread-pool and the process-pool strategy agree.
C33_NonMultiStageAgree ==
    (Completed /\ run.strategy # "multi_stage") =>
        GroupSet(result) = C33_SerialGroups

\* C34: a call whose first poll of cancel_callback, after the size
\* grouping, returns true returns the empty list in that step: no partial or
\* full hash is computed, the cache is neither read nor written, and the
\* hash-progress callback is not called.
C34_EarlyCancelStep ==
    (run'.n = run.n + 1 /\ run'.strategy = "none" /\ pc' # "failed") =>
        /\ pc' = "done"
        /\ result' = <<>>
        /\ run'.looked_up = {} /\ run'.missed = {} /\ run'.hits = 0
        /\ run'.partial_hashed = {} /\ run'.full_hashed = {}
        /\ run'.saves = <<>>
        /\ cache' = cache /\ committed' = committed /\ store' = store
        /\ progress'.hash = <<>>

C34_EarlyCancelDoesNothing == [][C34_EarlyCancelStep]_vars

\* A call on a tree with candidates, the cache holding rows, has returned
\* at the first poll.
C34_Witness ==
    /\ Returned /\ run.strategy = "none" /\ run.n > 0
    /\ run.cache_on /\ cache # {}
    /\ Len(Candidates) > 1

\* C37: when a call has returned, every path is a member of at most one
\* returned group, and is in that group's file list at most once.
C37_Occurrences(p) ==
    UNION {{<<i, j>> : j \in {j \in 1..Len(result[i].files) :
                                 result[i].files[j].path = p}} :
              i \in 1..Len(result)}

C37_PathInOneGroupOnce ==
    Returned =>
        \A i \in 1..Len(result) : \A j \in 1..Len(result[i].files) :
            C37_Occurrences(result[i].files[j].path) = {<<i, j>>}

\* The parallel strategy has returned two groups, one of them holding a
\* file whose hash came from the cache beside a file hashed by the pool.
C37_Witness ==
    /\ Returned /\ ~run.cancelled
    /\ run.strategy = "parallel"
    /\ Len(result) > 1
    /\ \E i \in 1..Len(result) :
          /\ Members(result[i]) \cap (run.looked_up \ run.missed) # {}
          /\ Members(result[i]) \cap run.full_hashed # {}

\* C38: every entry a call passes to set_batch carries the path, size and
\* mtime of a file the call enumerated and the full hash the call computed
\* for that path: never a partial hash, never an entry of a file whose hash
\* came from the cache, never one of a file whose hash failed.
C38_Written ==
    UNION {run.saves[i] : i \in 1..Len(run.saves)}
        \cup {to_save[i] : i \in 1..Len(to_save)}

C38_EntryIsComputedFullHash(r) ==
    LET f == disk[OnDisk(disk, r.path)] IN
    /\ \E i \in 1..Len(disk) : disk[i].path = r.path
    /\ ~ShouldSkipFile(f, scanner.extensions)
    /\ r.size = f.size /\ r.mtime = f.mtime
    /\ r.path \in run.full_hashed
    /\ r.path \notin (run.looked_up \ run.missed)
    /\ r.hash_value # None
    /\ r.hash_value = CalculateFileHash(disk, r.path)
    /\ r.path \in run.partial_hashed =>
          r.hash_value # CalculatePartialHash(disk, r.path, r.size)

C38_OnlyComputedFullHashesWritten ==
    \A r \in C38_Written : C38_EntryIsComputedFullHash(r)

\* A multi-stage call has written the full hash of a file it had hashed
\* partially, after a file's hash had failed.
C38_Witness ==
    /\ Returned
    /\ run.strategy = "multi_stage"
    /\ \E i \in 1..Len(run.saves) : \E r \in run.saves[i] :
          r.path \in run.partial_hashed
    /\ \E p \in run.partial_hashed : Unreadable(p)

\* A serial call has written the hash of a file it computed, beside a file
\* whose hash came from the cache.
C38_WitnessSerial ==
    /\ Returned
    /\ run.strategy = "serial"
    /\ run.saves # <<>>
    /\ run.hits > 0

\* C35: one call of scan_directory calls the scan-progress callback at most
\* 41 times, and one call of find_duplicates the hash-progress callback at
\* most 41 times.
C35_ProgressCallsBounded ==
    /\ Len(progress.scan) <= 41
    /\ Len(progress.hash) <= 41

\* C36: every call of a progress callback reports 0 <= processed <= total.
WithinTotal(calls) ==
    \A i \in 1..Len(calls) : 0 <= calls[i][1] /\ calls[i][1] <= calls[i][2]

C36_ProcessedWithinTotal ==
    WithinTotal(progress.hash) /\ WithinTotal(progress.scan)

\* C31: a step of a pool worker leaves the cache, its counters and the
\* batches alone, and a step in which the cache is read or written is a step
\* of the coordinator taken while no task of the pool is running.
WorkerStep ==
    /\ Len(futures') = Len(futures)
    /\ \E i \in 1..Len(futures) :
          \/ futures[i].state = "pending" /\ futures'[i].state = "running"
          \/ futures[i].state = "running" /\ futures'[i].state = "done"

CacheCalled ==
    /\ run'.n = run.n
    /\ \/ run'.saves # run.saves
       \/ run'.looked_up # run.looked_up
       \/ cache' # cache

C31_Step ==
    /\ WorkerStep =>
          /\ ~CacheCalled
          /\ UNCHANGED <<cache, committed, finder, to_save, hash_groups>>
    /\ CacheCalled => RunningTasks(futures) = {}

C31_CacheCallsOutsidePool == [][C31_Step]_vars

\* A cancelled call of the parallel strategy has written its batch after
\* the pool delivered two results the coordinator never took: the one that
\* was yielded when the poll returned true, and one that was in flight.
C31_Witness ==
    /\ Returned /\ run.cancelled
    /\ run.strategy = "parallel"
    /\ run.saves # <<>>
    /\ Cardinality(run.full_hashed \ run.collected) > 1

\* C39: every call of find_duplicates returns, and once a poll has returned
\* true no task that has not started is started.
InCall ==
    pc \in {"serial", "parallel", "thread_pool", "process_pool", "multi_stage",
            "full_serial", "full_parallel", "shutdown"}

\* Termination alone
C39_Terminates == InCall ~> Returned

C39_NoStartAfterCancel ==
    run.cancelled =>
        \A i \in 1..Len(futures) :
            (futures[i].state = "pending" /\ Len(futures') = Len(futures))
                => futures'[i].state # "running"

C39_TerminatesAndStopsPending ==
    /\ InCall ~> Returned
    /\ [][C39_NoStartAfterCancel]_vars

--------------------------------------------------------------------------
(* Properties of the cache API *)

\* C5: after set(path, size, mtime, h), get(path, size, mtime) returns h and
\* get of the path with another size or another mtime returns none.
C5_RoundTrip ==
    lastOp.op = "set" =>
        LET r == lastOp.row IN
        /\ CacheGet(cache, r.path, r.size, r.mtime) = r.hash_value
        /\ \A s \in CacheSizes, m \in CacheMtimes :
             (s # r.size \/ m # r.mtime) => CacheGet(cache, r.path, s, m) = None

\* set has replaced the entry of a path, next to entries of other paths.
C5_Witness == lastOp.op = "set" /\ Cardinality(cache) = Cardinality(CachePaths)

\* C8: invalidate_by_prefix deletes exactly the entries whose path is the
\* prefix or lies under it by whole segments.
UnderPrefix(path, prefix) == path = prefix \/ IsPrefixOf(prefix \o <<"/">>, path)

C8_PrefixBySegments ==
    [][(lastOp'.op = "invalidate_by_prefix" /\ lastOp'.raised = "") =>
         cache' = {r \in cache : ~UnderPrefix(r.path, NormPath(lastOp'.prefix))}]_vars

--------------------------------------------------------------------------
(* Properties of the store *)

\* C16: the cache holds at most one entry per path, and a set or set_batch
\* for a path replaces the entry the path had: get with the old size and
\* mtime returns none, get with the new ones returns the new hash.
OnePerPath(c) == \A r1, r2 \in c : r1.path = r2.path => r1 = r2

Replaces(before, after, e) ==
    /\ CacheGet(after, e.path, e.size, e.mtime) = e.hash_value
    /\ \A old \in before :
         (old.path = e.path /\ <<old.size, old.mtime>> # <<e.size, e.mtime>>)
         => CacheGet(after, old.path, old.size, old.mtime) = None

LastOfItsPath(entries, i) ==
    \A j \in (i + 1)..Len(entries) : entries[j].path # entries[i].path

C16_UpsertByPath ==
    [][/\ OnePerPath(cache')
       /\ lastOp'.op = "set" => Replaces(cache, cache', lastOp'.row)
       /\ (lastOp'.op = "set_batch" /\ lastOp'.raised = "") =>
             \A i \in 1..Len(lastOp'.entries) :
                 LastOfItsPath(lastOp'.entries, i) =>
                     Replaces(cache, cache', lastOp'.entries[i])]_vars

\* A batch of two entries for one path has been applied, and the entry of
\* the path is the second one.
C16_Witness ==
    /\ lastOp.op = "set_batch"
    /\ lastOp.raised = ""
    /\ Len(lastOp.entries) = 2
    /\ lastOp.entries[1].path = lastOp.entries[2].path
    /\ lastOp.entries[1] # lastOp.entries[2]
    /\ lastOp.entries[2] \in cache
    /\ Cardinality(cache) = 2

\* C17 as stated: for any list of triples, get_batch maps the path of a
\* triple to a hash exactly when get returns that hash for the triple, and
\* the path of a triple that misses is not in the map.
AgreesWithGet(c, infos, found) ==
    /\ \A i \in 1..Len(infos) :
         LET h == CacheGet(c, infos[i][1], infos[i][2], infos[i][3]) IN
         IF h # None THEN <<infos[i][1], h>> \in found
         ELSE \A e \in found : e[1] # infos[i][1]
    /\ \A e \in found : \E i \in 1..Len(infos) :
         /\ infos[i][1] = e[1]
         /\ CacheGet(c, infos[i][1], infos[i][2], infos[i][3]) = e[2]

DistinctPaths(infos) ==
    \A i, j \in 1..Len(infos) : infos[i][1] = infos[j][1] => infos[i] = infos[j]

C18_CleanupExact ==
    [][lastOp'.op = "cleanup_invalid_paths" =>
         /\ cache' = {r \in cache : r.path \in lastOp'.valid}
         /\ lastOp'.removed = Cardinality({r \in cache : r.path \notin lastOp'.valid})]_vars

\* A clean-up has removed an entry and left another.
C18_Witness ==
    /\ lastOp.op = "cleanup_invalid_paths"
    /\ lastOp.removed = 1
    /\ Cardinality(cache) = 1

\* C19: a set_batch makes all of its entries visible or none, and the
\* entries of a batch that failed are not made durable by that call nor by
\* the commit of a later set, invalidate or clear.
C19_BatchAtomic ==
    [][/\ lastOp'.op = "set_batch" =>
             IF lastOp'.raised = ""
             THEN cache' = CacheSetBatch(cache, lastOp'.entries)
             ELSE cache' = cache /\ committed' = committed
       /\ lastOp'.op = "set" => committed' \ committed \subseteq {lastOp'.row}
       /\ lastOp'.op \in {"invalidate", "clear"} => committed' \subseteq committed]_vars

--------------------------------------------------------------------------
(* Properties of the scanner *)

Returns(path) == \E k \in 1..Len(result) : result[k].path = path

\* C23: scan_directory returns a record for a regular file exactly when the
\* file is not empty, its lower-cased extension is not on the deny-list, its
\* name does not start with a denied name and, when the scanner was given
\* extensions, its extension is one of them, letter case and a leading dot
\* aside; every record has size at least 1 and its path occurs once.
Bare(e) == IF e # <<>> /\ Head(e) = "." THEN Tail(e) ELSE e

SameExtension(suffix, member) ==
    suffix # <<>> /\ Bare(Lower(suffix)) = Bare(Lower(member))

Eligible(f, extensions) ==
    /\ f.size >= 1
    /\ \A denied \in SKIP_EXTENSIONS : Lower(PathSuffix(f.path)) # denied
    /\ \A name \in SKIP_NAMES : ~IsPrefixOf(name, PathName(f.path))
    /\ extensions.given =>
          \E member \in extensions.members :
              SameExtension(PathSuffix(f.path), member)

C23_ScanFilter ==
    pc = "scanned" =>
        /\ \A i \in 1..Len(disk) :
              (disk[i].kind = "file" /\ disk[i].stat = "ok") =>
                  (Returns(disk[i].path) <=> Eligible(disk[i], scanner.extensions))
        /\ \A k \in 1..Len(result) :
              /\ result[k].size >= 1
              /\ \E i \in 1..Len(disk) :
                    disk[i].kind = "file" /\ result[k] = FileInfo(disk[i])
              /\ \A l \in 1..Len(result) : result[l].path = result[k].path => l = k

\* A scanner with extensions has returned a file whose extension is in
\* upper case and has left out a file of another extension.
C23_Witness ==
    /\ pc = "scanned"
    /\ scanner.extensions.given
    /\ \E i, j \in 1..Len(disk) :
          /\ Returns(disk[i].path)
          /\ PathSuffix(disk[i].path) # Lower(PathSuffix(disk[i].path))
          /\ disk[j].kind = "file" /\ disk[j].size >= 1 /\ disk[j].stat = "ok"
          /\ PathSuffix(disk[j].path) = <<".", "t", "x", "t">>
          /\ ~Returns(disk[j].path)

\* C24: a permission failure on a file or on a directory during
\* scan_directory does not end the scan with an exception: every eligible
\* file that can be reached is returned, every failure is kept as a record
\* of its path, and get_permission_summary then reports a count above 0.
Inaccessible(e) == e.stat # "ok" \/ (e.kind = "dir" /\ ~e.readable)

C24_PermissionFailureContained ==
    (pc \in {"scanned", "scan_raised"} /\ \E i \in 1..Len(disk) : Inaccessible(disk[i])) =>
        /\ pc = "scanned"
        /\ \A i \in 1..Len(disk) :
              (disk[i].kind = "file" /\ disk[i].stat = "ok"
                 /\ Eligible(disk[i], scanner.extensions)) => Returns(disk[i].path)
        /\ \A i \in 1..Len(disk) :
              Inaccessible(disk[i]) =>
                  \E k \in 1..Len(scanner.permission_errors) :
                      scanner.permission_errors[k].path = disk[i].path
        /\ GetPermissionSummary(scanner) > 0

--------------------------------------------------------------------------
(* Properties of the hash calculator *)

\* C25: a calculator is constructed only for an algorithm name that, letter
\* case aside, is on the allow-list; any other name is rejected by the
\* constructor, and every hash computed is a hash of an allowed algorithm.
SameName(name, allowed) ==
    /\ Len(name) = Len(allowed)
    /\ \A i \in 1..Len(name) : LowerChar(name[i]) = allowed[i]

C25_AlgorithmAllowListed ==
    /\ \E allowed \in secure_algorithms : finder.hash_calculator.algorithm = allowed
    /\ lastOp.op = "HashCalculator" =>
          (lastOp.raised = "" <=>
              \E allowed \in secure_algorithms : SameName(lastOp.algorithm, allowed))
    /\ \A k \in 1..Len(result) :
          result[k].value # None =>
              \E allowed \in secure_algorithms : result[k].value[1] = allowed

\* A name off the allow-list has been rejected after a hash was computed
\* with the calculator in use.
C25_Witness ==
    /\ lastOp.op = "HashCalculator"
    /\ lastOp.raised = "ValueError"
    /\ result # <<>>
    /\ result[1].value # None

====
